---- MODULE Spec2Model ----
(***************************************************************************)
(* ltop, first variant (src/src/main.c lines 1-516): the refresh scheduler, *)
(* the snapshot collector, the selection state, the key dispatcher and the  *)
(* termination dialog, as one state machine.                                *)
(*                                                                          *)
(* Specifications:                                                          *)
(*   Spec        the main loop of main() with the dialog it calls           *)
(*   SpecLive    Spec with the fairness the loop's scheduling gives         *)
(*   SpecSR      should_refresh applied to bounded timestamp pairs          *)
(*   SpecCollect the readdir loop of collect_processes on long listings     *)
(*   SpecScan    collect_processes on listings of named entries             *)
(*   SpecGrow    collect_processes on listings that outgrow the buffer      *)
(*   SpecView    render_process_list on heights, counts and selections      *)
(*   SpecMem     read_system_memory_info and render_memory_info             *)
(*   SpecProc    read_process_info on status sources                        *)
(*   SpecV2      the main loop of the second variant (lines 518-939)        *)
(***************************************************************************)
EXTENDS Integers, Sequences, FiniteSets, TLC

(***************************************************************************)
(* Program constants                                                        *)
(***************************************************************************)
REFRESH_INTERVAL_MS == 3000

INITIAL_CAPACITY_SIZE == 128

\* 1 ms in ns: the divisor of should_refresh
NSEC_PER_MS == 1000000

\* tv_nsec ranges over 0 .. NSEC_PER_SEC - 1
NSEC_PER_SEC == 1000000000



\* the delay of a window made by newwin and never given wtimeout: blocking
DialogDelay == -1

\* line 454 left out: stdscr keeps the delay every new window has
StdscrDelayBlocking == DialogDelay

\* timeout(100): the delay of reads on stdscr, in ms
StdscrDelay == 100

(***************************************************************************)
(* Bounds of the model                                                      *)
(***************************************************************************)
\* pids of the simulated process table of Spec: 1 .. MaxProcs
MaxProcs == 5

\* last second of the monotonic clock in Spec
MaxSec == 6

\* last second of the monotonic clock in SpecSR
MaxSecSR == 4

\* entries a listing of SpecCollect holds beyond two full doublings
MaxExtraEntries == 2

NULL == 0

BufIds == {1, 2}

VARIABLES
    pc,                 \* position of the program
    selected_index,     \* AppState.selected_index
    should_quit,        \* AppState.should_quit
    needs_refresh,      \* AppState.needs_refresh
    last_update,        \* AppState.last_update, [sec, nsec]
    last_processes,     \* main's pointer: NULL or a buffer id
    last_process_count, \* main's count (written by collect_processes on success only)
    heap,               \* live buffers: buffer id -> sequence of pids
    clock,              \* CLOCK_MONOTONIC: the latest reading
    pending,            \* the terminal's input queue: <<>> or <<key>>
    screen,             \* what the latest render drew: "none", "list", "error"
    dlg,                \* the dialog: [proc, sent, msg]
    ev,                 \* what the latest step did: [fired, collected, killed], the
                        \* selection and count a refresh found: [was_sel, was_count],
                        \* the key a read of the dialog returned: dkey
    fault,              \* memory faults so far: subset of {"use_after_free", "double_free", "leak"}
    cp,                 \* collect_processes' loop: [size, capacity, reallocs, entries]
    shown,              \* the pid of the record the latest render_process_list call was
                        \* given as the selected one (0: none)
    scan,               \* collect_processes on a listing: the entries readdir has yielded,
                        \* the records written, the counters, the cause of a failure
    view,               \* render_process_list: the terminal's height, start_idx, the
                        \* indices of the rows drawn, the index drawn highlighted
    mem,                \* read_system_memory_info and render_memory_info: the source,
                        \* the sample, the figures displayed
    proc,               \* read_process_info: the source, the record, the flags
    sigterm             \* what the run has shown of the disposition of SIGTERM the
                        \* program was exec'ed with (it sets none itself):
                        \* "inherited" (nothing yet), "ignored"

\* the state of the specifications of single functions
units == <<scan, view, mem, proc>>

vars == <<pc, selected_index, should_quit, needs_refresh, last_update,
          last_processes, last_process_count, heap, clock, pending,
          screen, dlg, ev, fault, cp, shown, scan, view, mem, proc, sigterm>>

(***************************************************************************)
(* struct timespec and should_refresh (lines 430-446)                       *)
(***************************************************************************)
Timespec(s, n) == [sec |-> s, nsec |-> n]

\* a <= b on normalised timestamps
TsLeq(a, b) == a.sec < b.sec \/ (a.sec = b.sec /\ a.nsec <= b.nsec)

\* the division rounding toward minus infinity
CDivFloor(a, b) == a \div b

\* C's integer division: truncation toward zero (b > 0)
CDiv(a, b) == IF a >= 0 THEN a \div b ELSE -((-a) \div b)

\* line 437-438
ElapsedMs(now, last) ==
    (now.sec - last.sec) * 1000 + CDiv(now.nsec - last.nsec, NSEC_PER_MS)

\* line 440: the condition of should_refresh, with now the clock reading
ShouldRefreshFires(now, last, flag) ==
    ElapsedMs(now, last) >= REFRESH_INTERVAL_MS \/ flag

\* line 441 left out
ShouldRefreshLastStale(now, last, flag) == last

\* line 441: last_update after the call
ShouldRefreshLast(now, last, flag) ==
    IF ShouldRefreshFires(now, last, flag) THEN now ELSE last

(***************************************************************************)
(* Names of namespace entries: sequences of character codes                 *)
(***************************************************************************)
CH_0 == 48

CH_9 == 57

\* "self"
NameSelf == <<115, 101, 108, 102>>

\* lines 58-68
RECURSIVE AllDigitsFrom(_, _)
AllDigitsFrom(str, i) ==
    IF i > Len(str) THEN TRUE
    ELSE IF str[i] < CH_0 \/ str[i] > CH_9 THEN FALSE
    ELSE AllDigitsFrom(str, i + 1)

is_numeric_string(str) ==
    IF Len(str) = 0 THEN FALSE ELSE AllDigitsFrom(str, 1)

\* atoi on a string of digits (line 201); the names of the model have at
\* most three digits, far from INT_MAX
RECURSIVE AtoiFrom(_, _, _)
AtoiFrom(str, i, acc) ==
    IF i > Len(str) \/ str[i] < CH_0 \/ str[i] > CH_9 THEN acc
    ELSE AtoiFrom(str, i + 1, acc * 10 + (str[i] - CH_0))

\* the value of the first digit taken for the value of the string
atoiFirstDigit(str) == str[1] - CH_0

atoi(str) == AtoiFrom(str, 1, 0)

\* the entry the namespace lists for process n > 0: n printed in decimal
RECURSIVE Decimal(_)
Decimal(n) ==
    IF n < 10 THEN <<CH_0 + n>>
    ELSE Append(Decimal(n \div 10), CH_0 + (n % 10))

(***************************************************************************)
(* collect_processes (lines 176-231)                                        *)
(***************************************************************************)
\* line 203 with < for <=
CollectAcceptsZero(name) == is_numeric_string(name) /\ atoi(name) >= 0

\* lines 198-204: the entry is a candidate
CollectAccepts(name) == is_numeric_string(name) /\ atoi(name) > 0

\* line 206 with > for >=
CollectMustGrowLate(size, capacity) == size > capacity

\* line 206
CollectMustGrow(size, capacity) == size >= capacity

\* line 207 growing by one record instead of doubling
CollectNewCapacityPlusOne(capacity) == capacity + 1

\* line 207
CollectNewCapacity(capacity) == capacity * 2

\* lines 185-186: the counters of the loop after malloc
CollectStart == [size |-> 0, capacity |-> INITIAL_CAPACITY_SIZE, reallocs |-> 0]

\* lines 198-224: the counters after one iteration of the readdir loop, realloc
\* succeeding; entry = [name, readable], readable: fopen of the status file
\* succeeds, so that read_process_info returns true
CollectIter(st, entry) ==
    IF ~CollectAccepts(entry.name) THEN st
    ELSE LET grow == CollectMustGrow(st.size, st.capacity)
             cap  == IF grow THEN CollectNewCapacity(st.capacity) ELSE st.capacity
             re   == IF grow THEN st.reallocs + 1 ELSE st.reallocs
         IN  [size     |-> IF entry.readable THEN st.size + 1 ELSE st.size,
              capacity |-> cap,
              reallocs |-> re]

\* lines 221-224 with size++ whatever read_process_info returns
CollectRecordsKeepVanished(procs, entry) ==
    IF CollectAccepts(entry.name)
    THEN Append(procs, atoi(entry.name))
    ELSE procs

\* lines 221-224: the records 0 .. size-1 after one iteration (their pids)
CollectRecords(procs, entry) ==
    IF CollectAccepts(entry.name) /\ entry.readable
    THEN Append(procs, atoi(entry.name))
    ELSE procs

\* lines 197-230 on a whole listing: [st, procs] at return
RECURSIVE CollectFrom(_, _, _, _)
CollectFrom(listing, i, st, procs) ==
    IF i > Len(listing) THEN [st |-> st, procs |-> procs]
    ELSE CollectFrom(listing, i + 1, CollectIter(st, listing[i]),
                     CollectRecords(procs, listing[i]))

collect_processes(listing) == CollectFrom(listing, 1, CollectStart, <<>>)

(***************************************************************************)
(* The heap: malloc, free                                                   *)
(***************************************************************************)
EmptyHeap == [b \in {} |-> <<>>]

\* the address malloc returns is never compared by the program: the model
\* takes the lowest free buffer id
MallocId(h) == CHOOSE b \in BufIds \ DOMAIN h : \A c \in BufIds \ DOMAIN h : b <= c

HeapAlloc(h, procs) == [b \in DOMAIN h \cup {MallocId(h)} |->
                           IF b \in DOMAIN h THEN h[b] ELSE procs]

HeapFree(h, p) == [b \in DOMAIN h \ {p} |-> h[b]]

\* free(p) of a pointer that is not a live buffer
FreeFault(h, p) == IF p \in DOMAIN h THEN {} ELSE {"double_free"}

\* a read through p of a buffer that is not live
ReadFault(h, p) == IF p \in DOMAIN h THEN {} ELSE {"use_after_free"}

(***************************************************************************)
(* Keys (ncurses codes and character codes) and reads                       *)
(***************************************************************************)
ERR == -1

KEY_DOWN == 258

KEY_UP == 259

CH_q == 113

CH_Q == 81

CH_k == 107

CH_K == 75

CH_r == 114

CH_R == 82

CH_1 == 49

CH_2 == 50

\* keys the user may press
Keys == {CH_q, CH_Q, CH_k, CH_K, CH_r, CH_R, CH_1, CH_2, KEY_UP, KEY_DOWN}

\* what getch/wgetch on a window of the given delay can return: the first queued key,
\* else ERR once a non-negative delay has passed, else nothing yet (it blocks)
ReadOutcomes(delay, queue) ==
    IF queue # <<>> THEN {Head(queue)}
    ELSE IF delay >= 0 THEN {ERR}
    ELSE {}

\* line 238: getch reads stdscr, whose delay init_ncurses set (line 454)
getch(queue) == ReadOutcomes(StdscrDelay, queue)

\* lines 304, 319: wgetch reads the dialog's window (line 287)
wgetch(queue) == ReadOutcomes(DialogDelay, queue)

(***************************************************************************)
(* The environment of Spec: the process table and the clock                 *)
(***************************************************************************)
Pids == 1 .. MaxProcs

\* the namespace listing with the processes of S, those of V vanishing before
\* their status file is opened, in the order readdir yields them, and "self"
RECURSIVE TableFrom(_, _, _)
TableFrom(S, V, p) ==
    IF p > MaxProcs THEN <<[name |-> NameSelf, readable |-> TRUE]>>
    ELSE (IF p \in S THEN <<[name |-> Decimal(p), readable |-> p \notin V]>>
          ELSE <<>>) \o TableFrom(S, V, p + 1)

\* the process tables of Spec: processes lo .. hi are alive, and the first of
\* them may vanish during the scan
Listings == UNION {{TableFrom(lo .. hi, {}, 1), TableFrom(lo .. hi, {lo}, 1)} :
                       lo \in Pids, hi \in 0 .. MaxProcs}

\* what collect_processes returns on them
CollectResults == {collect_processes(listing) : listing \in Listings}

\* the clock of Spec is read on whole seconds
NsecSamples == {0}

ClockValues == {Timespec(s, n) : s \in 0 .. MaxSec, n \in NsecSamples}

(***************************************************************************)
(* State that records what a step did                                       *)
(***************************************************************************)
EvNone == [fired |-> FALSE, collected |-> FALSE, killed |-> 0,
           was_sel |-> -1, was_count |-> -1, dkey |-> <<>>]

DlgIdle == [proc |-> -1, sent |-> 0, msg |-> "none"]

CpIdle == [size |-> 0, capacity |-> 0, reallocs |-> 0, entries |-> 0]

\* the functions checked on their own are not running
ScanIdle == [listing |-> <<>>, lead |-> 0, procs |-> <<>>, size |-> 0,
             capacity |-> 0, reallocs |-> 0, cause |-> "none"]

ViewIdle == [max_y |-> 0, visible_rows |-> 0, start_idx |-> 0, i |-> 0,
             rows |-> <<>>, highlighted |-> -1]

\* the fields of SystemMemoryInfo (lines 27-35)
MemFields == {"mem_total_kb", "mem_free_kb", "mem_available_kb", "mem_cached_kb",
              "swap_total_kb", "swap_free_kb", "buffers_kb"}

\* the keys of lines 154-166, with their colon
MemKeys == {"MemTotal:", "MemFree:", "MemAvailable:", "Cached:", "SwapTotal:",
            "SwapFree:", "Buffers:"}

\* lines 154-167: the field the branch of a key assigns
MemFieldOf(key) ==
    CASE key = "MemTotal:"     -> "mem_total_kb"
      [] key = "MemFree:"      -> "mem_free_kb"
      [] key = "MemAvailable:" -> "mem_available_kb"
      [] key = "Cached:"       -> "mem_cached_kb"
      [] key = "SwapTotal:"    -> "swap_total_kb"
      [] key = "SwapFree:"     -> "swap_free_kb"
      [] key = "Buffers:"      -> "buffers_kb"

\* a SystemMemoryInfo of zeros (lines 144, 468, 482)
MemZero == [f \in MemFields |-> 0]

\* main's last_mem_info = {0} (line 468), nothing read, nothing displayed
MemIdle == [lines |-> <<>>, opened |-> FALSE, sample |-> MemZero,
            display |-> [used |-> 0, swap_used |-> 0]]

ProcIdle == [lines |-> <<>>, opened |-> FALSE,
             record |-> [name |-> <<>>, state |-> 0, vm_rss_kb |-> 0],
             found |-> [name |-> FALSE, state |-> FALSE, rss |-> FALSE],
             ret |-> FALSE]

UnitsIdle ==
    /\ scan = ScanIdle
    /\ view = ViewIdle
    /\ mem = MemIdle
    /\ proc = ProcIdle

\* the state of the termination dialog (section 4.6 of the specification); a
\* program ended by its own signal inside kill (line 307) ended in
\* SubmittingSignal
DialogState ==
    CASE pc = "dlg_choice" -> "AwaitingConfirmation"
      [] pc \in {"dlg_submit", "killed"} -> "SubmittingSignal"
      [] pc = "dlg_result" -> "ResultDisplayed"
      [] OTHER             -> "Idle"

(***************************************************************************)
(* main (lines 461-516)                                                     *)
(***************************************************************************)
Init ==
    /\ pc = "top"
    /\ selected_index = 0
    /\ should_quit = FALSE
    /\ needs_refresh = TRUE
    /\ clock \in {Timespec(0, n) : n \in NsecSamples}
    /\ last_update = clock
    /\ last_processes = NULL
    /\ last_process_count = 0
    /\ heap = EmptyHeap
    /\ pending = <<>>
    /\ screen = "none"
    /\ dlg = DlgIdle
    /\ ev = EvNone
    /\ fault = {}
    /\ cp = CpIdle
    /\ UnitsIdle
    /\ shown = 0
    /\ sigterm = "inherited"

\* lines 485-491 with > for >=
ClampSelectionGt(sel, count) ==
    IF count > 0
    THEN IF sel > count THEN count - 1 ELSE sel
    ELSE 0

\* lines 485-491
ClampSelection(sel, count) ==
    IF count > 0
    THEN IF sel >= count THEN count - 1 ELSE sel
    ELSE 0

\* lines 474-477 and 510-512 left out: nothing is freed
MainFreeOldNever(h, p) == h

\* lines 474-477, 510-512: free(last_processes) unless it is NULL
MainFreeOld(h, p) == IF p # NULL THEN HeapFree(h, p) ELSE h

\* line 472 false, lines 510-515
Exit ==
    /\ pc = "top"
    /\ should_quit
    /\ heap' = MainFreeOld(heap, last_processes)
    /\ fault' = fault
                \cup (IF last_processes # NULL THEN FreeFault(heap, last_processes) ELSE {})
                \cup (IF heap' # EmptyHeap THEN {"leak"} ELSE {})
    /\ pc' = "done"
    /\ ev' = EvNone
    /\ UNCHANGED <<selected_index, should_quit, needs_refresh, last_update,
                   last_processes, last_process_count, clock, pending,
                   screen, dlg, cp>>
    /\ UNCHANGED <<units, shown>>
    /\ UNCHANGED sigterm

\* should_refresh reads CLOCK_MONOTONIC (line 435): the variable clock is the
\* time it would read now

\* lines 472-473: should_refresh returns false
RefreshSkip ==
    /\ pc = "top"
    /\ ~should_quit
    /\ ~ShouldRefreshFires(clock, last_update, needs_refresh)
    /\ last_update' = ShouldRefreshLast(clock, last_update, needs_refresh)
    /\ pc' = "render"
    /\ ev' = EvNone
    /\ UNCHANGED <<selected_index, should_quit, needs_refresh, last_processes,
                   last_process_count, heap, clock, pending, screen, dlg, fault, cp>>
    /\ UNCHANGED <<units, shown>>
    /\ UNCHANGED sigterm

\* lines 472-494: should_refresh returns true and collect_processes returns a
\* buffer
RefreshCollect ==
    /\ pc = "top"
    /\ ~should_quit
    /\ ShouldRefreshFires(clock, last_update, needs_refresh)
    /\ last_update' = ShouldRefreshLast(clock, last_update, needs_refresh)
    /\ \E got \in CollectResults :
        LET h1 == MainFreeOld(heap, last_processes)
        IN  /\ heap' = HeapAlloc(h1, got.procs)
            /\ last_processes' = MallocId(h1)
            /\ last_process_count' = got.st.size
            /\ selected_index' = ClampSelection(selected_index, got.st.size)
    /\ fault' = fault
                \cup (IF last_processes # NULL THEN FreeFault(heap, last_processes) ELSE {})
    /\ needs_refresh' = FALSE
    /\ pc' = "render"
    /\ ev' = [EvNone EXCEPT !.fired = TRUE, !.collected = TRUE,
                          !.was_sel = selected_index, !.was_count = last_process_count]
    /\ UNCHANGED <<should_quit, clock, pending, screen, dlg, cp>>
    /\ UNCHANGED <<units, shown>>
    /\ UNCHANGED sigterm

\* lines 472-494 leaving the loop when collect_processes returns NULL
RefreshFailExits ==
    /\ pc = "top"
    /\ ~should_quit
    /\ ShouldRefreshFires(clock, last_update, needs_refresh)
    /\ last_update' = ShouldRefreshLast(clock, last_update, needs_refresh)
    /\ heap' = MainFreeOld(heap, last_processes)
    /\ last_processes' = NULL
    /\ needs_refresh' = FALSE
    /\ pc' = "done"
    /\ ev' = [EvNone EXCEPT !.fired = TRUE, !.collected = TRUE,
                          !.was_sel = selected_index, !.was_count = last_process_count]
    /\ UNCHANGED <<selected_index, should_quit, last_process_count, clock,
                   pending, screen, dlg, fault, cp>>
    /\ UNCHANGED <<units, shown>>
    /\ UNCHANGED sigterm

\* lines 472-494: should_refresh returns true and collect_processes returns
\* NULL (opendir or malloc fails, lines 180-193): *count is not written
RefreshFail ==
    /\ pc = "top"
    /\ ~should_quit
    /\ ShouldRefreshFires(clock, last_update, needs_refresh)
    /\ last_update' = ShouldRefreshLast(clock, last_update, needs_refresh)
    /\ heap' = MainFreeOld(heap, last_processes)
    /\ last_processes' = NULL
    /\ last_process_count' = last_process_count
    /\ selected_index' = ClampSelection(selected_index, last_process_count)
    /\ fault' = fault
                \cup (IF last_processes # NULL THEN FreeFault(heap, last_processes) ELSE {})
    /\ needs_refresh' = FALSE
    /\ pc' = "render"
    /\ ev' = [EvNone EXCEPT !.fired = TRUE, !.collected = TRUE,
                          !.was_sel = selected_index, !.was_count = last_process_count]
    /\ UNCHANGED <<should_quit, clock, pending, screen, dlg, cp>>
    /\ UNCHANGED <<units, shown>>
    /\ UNCHANGED sigterm

\* the pid of record i of the buffer p (0: there is no such record); a freed
\* buffer holds anything
RecordPid(h, p, i) ==
    IF p \in DOMAIN h
    THEN IF i + 1 \in DOMAIN h[p] THEN {h[p][i + 1]} ELSE {0}
    ELSE Pids

\* lines 496-505; render_process_list reads the records it draws and is given
\* selected_index as the row to highlight (lines 408-410)
Render ==
    /\ pc = "render"
    /\ IF last_processes # NULL
       THEN /\ screen' = "list"
            /\ fault' = fault \cup (IF last_process_count > 0
                                    THEN ReadFault(heap, last_processes) ELSE {})
            /\ shown' \in RecordPid(heap, last_processes, selected_index)
       ELSE /\ screen' = "error"
            /\ fault' = fault
            /\ shown' = 0
    /\ pc' = "input"
    /\ ev' = EvNone
    /\ UNCHANGED <<selected_index, should_quit, needs_refresh, last_update,
                   last_processes, last_process_count, heap, clock,
                   pending, dlg, cp>>
    /\ UNCHANGED units
    /\ UNCHANGED sigterm

(***************************************************************************)
(* handle_user_input (lines 233-278)                                        *)
(***************************************************************************)
\* lines 247-250 with line 249 left out: the selection moves, no refresh is requested
KeyUpMoveQuiet(sel) ==
    IF sel > 0 THEN [sel |-> sel - 1, moved |-> FALSE]
    ELSE [sel |-> sel, moved |-> FALSE]

\* lines 247-250: [sel, moved]
KeyUpMove(sel) ==
    IF sel > 0 THEN [sel |-> sel - 1, moved |-> TRUE]
    ELSE [sel |-> sel, moved |-> FALSE]

\* line 254 without the - 1
KeyDownMovePastEnd(sel, count) ==
    IF sel < count THEN [sel |-> sel + 1, moved |-> TRUE]
    ELSE [sel |-> sel, moved |-> FALSE]

\* lines 254-257
KeyDownMove(sel, count) ==
    IF sel < count - 1 THEN [sel |-> sel + 1, moved |-> TRUE]
    ELSE [sel |-> sel, moved |-> FALSE]

\* lines 262-263
KillGuard(sel, count) == count > 0 /\ sel >= 0 /\ sel < count

\* lines 240-277 without the dialog: the AppState fields after key ch
DispatchKey(ch, sel, count, sq, nr) ==
    CASE ch \in {CH_q, CH_Q} -> [sel |-> sel, sq |-> TRUE, nr |-> nr]
      [] ch = KEY_UP   -> [sel |-> KeyUpMove(sel).sel, sq |-> sq,
                           nr |-> nr \/ KeyUpMove(sel).moved]
      [] ch = KEY_DOWN -> [sel |-> KeyDownMove(sel, count).sel, sq |-> sq,
                           nr |-> nr \/ KeyDownMove(sel, count).moved]
      [] ch \in {CH_r, CH_R} -> [sel |-> sel, sq |-> sq, nr |-> TRUE]
      [] OTHER -> [sel |-> sel, sq |-> sq, nr |-> nr]

\* lines 235-236: no snapshot, so the function returns before getch
InputSkipped ==
    /\ pc = "input"
    /\ last_processes = NULL
    /\ pc' = "top"
    /\ ev' = EvNone
    /\ UNCHANGED <<selected_index, should_quit, needs_refresh, last_update,
                   last_processes, last_process_count, heap, clock,
                   pending, screen, dlg, fault, cp>>
    /\ UNCHANGED <<units, shown>>
    /\ UNCHANGED sigterm

\* lines 238-277: getch and the switch; 'k' with the guard of lines 262-263
\* enters terminate_process_with_dialog, whose newwin (line 287) may fail
Input ==
    /\ pc = "input"
    /\ last_processes # NULL
    /\ \E ch \in getch(pending) :
        /\ pending' = (IF pending = <<>> THEN pending ELSE Tail(pending))
        /\ IF ch \in {CH_k, CH_K} /\ KillGuard(selected_index, last_process_count)
           THEN \E win_ok \in BOOLEAN :
                  IF win_ok
                  THEN /\ pc' = "dlg_choice"
                       /\ dlg' = [proc |-> selected_index, sent |-> 0, msg |-> "none"]
                       /\ fault' = fault \cup ReadFault(heap, last_processes)
                       /\ ev' = EvNone
                       /\ UNCHANGED <<selected_index, should_quit, needs_refresh>>
                  ELSE /\ pc' = "top"
                       /\ needs_refresh' = TRUE
                       /\ ev' = EvNone
                       /\ UNCHANGED <<selected_index, should_quit, dlg, fault>>
           ELSE LET after == DispatchKey(ch, selected_index, last_process_count,
                                         should_quit, needs_refresh)
                IN  /\ selected_index' = after.sel
                    /\ should_quit' = after.sq
                    /\ needs_refresh' = after.nr
                    /\ pc' = "top"
                    /\ ev' = EvNone
                    /\ UNCHANGED <<dlg, fault>>
    /\ UNCHANGED <<last_update, last_processes, last_process_count, heap, clock,
                   screen, cp>>
    /\ UNCHANGED <<units, shown>>
    /\ UNCHANGED sigterm

(***************************************************************************)
(* terminate_process_with_dialog (lines 280-325)                            *)
(***************************************************************************)
\* line 306
DialogConfirms(choice) == choice = CH_1

\* what strerror(errno) gives when kill fails
KillErrors == {"Operation not permitted", "No such process"}

\* line 265 passing processes, the first record, for &processes[selected_index]
ProcPidFirst(h, p, i) ==
    IF p \in DOMAIN h /\ 1 \in DOMAIN h[p] THEN {h[p][1]} ELSE Pids

\* proc->pid, proc pointing at record dlg.proc of the buffer; a freed buffer
\* holds anything
ProcPid(h, p, i) ==
    IF p \in DOMAIN h /\ i + 1 \in DOMAIN h[p] THEN {h[p][i + 1]} ELSE Pids

\* line 304 with line 266 moved into the branch of line 306: a dialog that is
\* cancelled requests no refresh
DialogChoiceCancelQuiet ==
    /\ pc = "dlg_choice"
    /\ \E ch \in wgetch(pending) :
        /\ pending' = (IF pending = <<>> THEN pending ELSE Tail(pending))
        /\ ev' = [EvNone EXCEPT !.dkey = <<ch>>]
        /\ IF DialogConfirms(ch)
           THEN /\ pc' = "dlg_submit"
                /\ UNCHANGED <<needs_refresh, dlg>>
           ELSE /\ pc' = "top"
                /\ needs_refresh' = needs_refresh
                /\ dlg' = DlgIdle
    /\ UNCHANGED <<selected_index, should_quit, last_update, last_processes,
                   last_process_count, heap, clock, screen, fault, cp>>
    /\ UNCHANGED <<units, shown>>
    /\ UNCHANGED sigterm

\* line 304: the first read; any key but '1' closes the dialog, and
\* handle_user_input sets needs_refresh (line 266)
DialogChoice ==
    /\ pc = "dlg_choice"
    /\ \E ch \in wgetch(pending) :
        /\ pending' = (IF pending = <<>> THEN pending ELSE Tail(pending))
        /\ ev' = [EvNone EXCEPT !.dkey = <<ch>>]
        /\ IF DialogConfirms(ch)
           THEN /\ pc' = "dlg_submit"
                /\ UNCHANGED <<needs_refresh, dlg>>
           ELSE /\ pc' = "top"
                /\ needs_refresh' = TRUE
                /\ dlg' = DlgIdle
    /\ UNCHANGED <<selected_index, should_quit, last_update, last_processes,
                   last_process_count, heap, clock, screen, fault, cp>>
    /\ UNCHANGED <<units, shown>>
    /\ UNCHANGED sigterm

\* the pid of the program itself, one of the processes of the table
SelfPid == MaxProcs

\* line 307: what kill(target, SIGTERM) can do. For another process it returns
\* 0 or -1 with errno set. For the program itself it returns 0 when SIGTERM was
\* ignored at exec; otherwise the signal is delivered inside the call and the
\* program ends there (through the handler initscr installs for a signal left
\* at its default), main's remaining code never running.
KillOutcomes(target, disposition) ==
    IF target # SelfPid THEN {"success"} \cup KillErrors
    ELSE IF disposition = "ignored" THEN {"success"}
    ELSE {"success", "terminated"}

\* the disposition as the run has shown it after kill(target, SIGTERM) returned
SigtermAfterReturn(target, disposition) ==
    IF target = SelfPid THEN "ignored" ELSE disposition

\* lines 307-318: kill(proc->pid, SIGTERM) and the message of its outcome; a
\* program ended by its own signal draws no message and does not free the buffer
DialogSubmit ==
    /\ pc = "dlg_submit"
    /\ \E target \in ProcPid(heap, last_processes, dlg.proc) :
       \E outcome \in KillOutcomes(target, sigterm) :
        /\ ev' = [EvNone EXCEPT !.killed = target]
        /\ IF outcome = "terminated"
           THEN /\ dlg' = [dlg EXCEPT !.sent = dlg.sent + 1]
                /\ pc' = "killed"
                /\ sigterm' = sigterm
           ELSE /\ dlg' = [dlg EXCEPT !.sent = dlg.sent + 1, !.msg = outcome]
                /\ pc' = "dlg_result"
                /\ sigterm' = SigtermAfterReturn(target, sigterm)
    /\ fault' = fault \cup ReadFault(heap, last_processes)
    /\ UNCHANGED <<selected_index, should_quit, needs_refresh, last_update,
                   last_processes, last_process_count, heap, clock,
                   pending, screen, cp>>
    /\ UNCHANGED <<units, shown>>

\* lines 319-324 with the key handed on to the switch of handle_user_input
DialogResultDispatches ==
    /\ pc = "dlg_result"
    /\ \E ch \in wgetch(pending) :
        LET after == DispatchKey(ch, selected_index, last_process_count,
                                 should_quit, TRUE)
        IN  /\ pending' = (IF pending = <<>> THEN pending ELSE Tail(pending))
            /\ ev' = [EvNone EXCEPT !.dkey = <<ch>>]
            /\ selected_index' = after.sel
            /\ should_quit' = after.sq
    /\ pc' = "top"
    /\ needs_refresh' = TRUE
    /\ dlg' = DlgIdle
    /\ UNCHANGED <<last_update, last_processes, last_process_count, heap, clock,
                   screen, fault, cp>>
    /\ UNCHANGED <<units, shown>>
    /\ UNCHANGED sigterm

\* lines 319-324 and line 266: the second read; any key closes the dialog
DialogResult ==
    /\ pc = "dlg_result"
    /\ \E ch \in wgetch(pending) :
        /\ pending' = (IF pending = <<>> THEN pending ELSE Tail(pending))
        /\ ev' = [EvNone EXCEPT !.dkey = <<ch>>]
    /\ pc' = "top"
    /\ needs_refresh' = TRUE
    /\ dlg' = DlgIdle
    /\ UNCHANGED <<selected_index, should_quit, last_update, last_processes,
                   last_process_count, heap, clock, screen, fault, cp>>
    /\ UNCHANGED <<units, shown>>
    /\ UNCHANGED sigterm

\* the user presses a key while the program waits in a read (or would: with no
\* snapshot handle_user_input returns without reading); the terminal queues it
KeyPress(k) ==
    /\ pc \in {"input", "dlg_choice", "dlg_result"}
    /\ pending = <<>>
    /\ pending' = <<k>>
    /\ ev' = EvNone
    /\ UNCHANGED <<pc, selected_index, should_quit, needs_refresh, last_update,
                   last_processes, last_process_count, heap, clock,
                   screen, dlg, fault, cp>>
    /\ UNCHANGED <<units, shown>>
    /\ UNCHANGED sigterm

\* time passes
Tick ==
    /\ pc \notin {"done", "killed"}
    /\ \E t \in ClockValues :
        /\ TsLeq(clock, t)
        /\ t # clock
        /\ clock' = t
    /\ ev' = EvNone
    /\ UNCHANGED <<pc, selected_index, should_quit, needs_refresh, last_update,
                   last_processes, last_process_count, heap, pending, screen,
                   dlg, fault, cp>>
    /\ UNCHANGED <<units, shown>>
    /\ UNCHANGED sigterm

\* the steps of the program itself
Program ==
    \/ Exit
    \/ RefreshSkip
    \/ RefreshCollect
    \/ RefreshFail
    \/ Render
    \/ InputSkipped
    \/ Input
    \/ DialogChoice
    \/ DialogSubmit
    \/ DialogResult

Next ==
    \/ Exit
    \/ RefreshSkip
    \/ RefreshCollect
    \/ RefreshFail
    \/ Render
    \/ InputSkipped
    \/ Input
    \/ DialogChoice
    \/ DialogSubmit
    \/ DialogResult
    \/ \E k \in Keys : KeyPress(k)
    \/ Tick

Spec == Init /\ [][Next]_vars

\* the loop is sequential code: whenever it can take a step it does; nothing
\* obliges the user to press a key, nor the clock of the model to advance
SpecLive == Init /\ [][Next]_vars /\ WF_vars(Program)

(***************************************************************************)
(* SpecSR: should_refresh and its caller on pairs of timestamps             *)
(***************************************************************************)
SRNsec == {0, 1, NSEC_PER_MS - 1, NSEC_PER_MS, NSEC_PER_SEC - NSEC_PER_MS,
           NSEC_PER_SEC - 1}

SRTimes == {Timespec(s, n) : s \in 0 .. MaxSecSR, n \in SRNsec}

InitSR ==
    /\ pc = "sr_call"
    /\ selected_index = 0
    /\ should_quit = FALSE
    /\ needs_refresh \in BOOLEAN
    /\ clock \in {t \in SRTimes : t.sec = 0}
    /\ last_update = clock
    /\ last_processes = NULL
    /\ last_process_count = 0
    /\ heap = EmptyHeap
    /\ pending = <<>>
    /\ screen = "none"
    /\ dlg = DlgIdle
    /\ ev = EvNone
    /\ fault = {}
    /\ cp = CpIdle
    /\ UnitsIdle
    /\ shown = 0
    /\ sigterm = "inherited"

\* lines 430-446, the clock reading now
SRCall ==
    /\ pc = "sr_call"
    /\ \E now \in SRTimes :
        /\ TsLeq(clock, now)
        /\ clock' = now
        /\ last_update' = ShouldRefreshLast(now, last_update, needs_refresh)
        /\ ev' = [EvNone EXCEPT
                    !.fired = ShouldRefreshFires(now, last_update, needs_refresh)]
    /\ pc' = "sr_ret"
    /\ UNCHANGED <<selected_index, should_quit, needs_refresh, last_processes,
                   last_process_count, heap, pending, screen, dlg, fault, cp>>
    /\ UNCHANGED <<units, shown>>
    /\ UNCHANGED sigterm

\* lines 473, 493: the caller clears the flag after a call that returned true;
\* a key may set it again before the next call (lines 249, 256, 266, 272)
SRCaller ==
    /\ pc = "sr_ret"
    /\ \E again \in BOOLEAN :
        needs_refresh' = ((IF ev.fired THEN FALSE ELSE needs_refresh) \/ again)
    /\ pc' = "sr_call"
    /\ ev' = EvNone
    /\ UNCHANGED <<selected_index, should_quit, last_update, last_processes,
                   last_process_count, heap, clock, pending, screen, dlg, fault,
                   cp>>
    /\ UNCHANGED <<units, shown>>
    /\ UNCHANGED sigterm

NextSR ==
    \/ SRCall
    \/ SRCaller

SpecSR == InitSR /\ [][NextSR]_vars

(***************************************************************************)
(* SpecCollect: the readdir loop of collect_processes, entry by entry       *)
(***************************************************************************)
MaxEntries == 2 * INITIAL_CAPACITY_SIZE + MaxExtraEntries

InitCollect ==
    /\ pc = "cp_loop"
    /\ selected_index = 0
    /\ should_quit = FALSE
    /\ needs_refresh = TRUE
    /\ clock = Timespec(0, 0)
    /\ last_update = clock
    /\ last_processes = NULL
    /\ last_process_count = 0
    /\ heap = EmptyHeap
    /\ pending = <<>>
    /\ screen = "none"
    /\ dlg = DlgIdle
    /\ ev = EvNone
    /\ fault = {}
    /\ cp = [size |-> CollectStart.size, capacity |-> CollectStart.capacity,
             reallocs |-> CollectStart.reallocs, entries |-> 0]
    /\ UnitsIdle
    /\ shown = 0
    /\ sigterm = "inherited"

CpCounters == [size |-> cp.size, capacity |-> cp.capacity, reallocs |-> cp.reallocs]

\* the processes that vanish during a scan of SpecCollect have pids above this
CpVanishedBase == 1000

\* the entries readdir may yield next: the next process that stays (the
\* processes that stay are 1, 2, ... in the order of the listing), a process
\* that vanishes before its status file is opened, or "self"
NextEntries ==
    {[name |-> Decimal(cp.size + 1), readable |-> TRUE],
     [name |-> Decimal(CpVanishedBase + cp.entries + 1), readable |-> FALSE],
     [name |-> NameSelf, readable |-> TRUE]}

\* the records 0 .. size-1 of the buffer (their pids): the processes that stayed
CpRecords == [i \in 1 .. cp.size |-> i]

\* lines 197-224: readdir yields an entry, realloc (if called) succeeds
CollectEntry ==
    /\ pc = "cp_loop"
    /\ cp.entries < MaxEntries
    /\ \E entry \in NextEntries :
        LET st == CollectIter(CpCounters, entry)
        IN  cp' = [size |-> st.size, capacity |-> st.capacity,
                   reallocs |-> st.reallocs, entries |-> cp.entries + 1]
    /\ UNCHANGED <<pc, selected_index, should_quit, needs_refresh, last_update,
                   last_processes, last_process_count, heap, clock, pending,
                   screen, dlg, ev, fault>>
    /\ UNCHANGED <<units, shown>>
    /\ UNCHANGED sigterm

\* lines 206-215: readdir yields a candidate, the buffer is full and realloc
\* returns NULL: the buffer is freed and NULL returned
CollectReallocFails ==
    /\ pc = "cp_loop"
    /\ cp.entries < MaxEntries
    /\ \E entry \in NextEntries : CollectAccepts(entry.name)
    /\ CollectMustGrow(cp.size, cp.capacity)
    /\ pc' = "cp_failed"
    /\ cp' = [cp EXCEPT !.entries = cp.entries + 1]
    /\ UNCHANGED <<selected_index, should_quit, needs_refresh, last_update,
                   last_processes, last_process_count, heap, clock, pending,
                   screen, dlg, ev, fault>>
    /\ UNCHANGED <<units, shown>>
    /\ UNCHANGED sigterm

\* lines 197, 227-230: readdir yields NULL; *count = size (count is main's
\* &last_process_count, line 479) and the buffer is returned to main's
\* last_processes
CollectReturn ==
    /\ pc = "cp_loop"
    /\ pc' = "cp_returned"
    /\ last_process_count' = cp.size
    /\ heap' = HeapAlloc(heap, CpRecords)
    /\ last_processes' = MallocId(heap)
    /\ UNCHANGED <<selected_index, should_quit, needs_refresh, last_update,
                   clock, pending, screen, dlg, ev, fault, cp>>
    /\ UNCHANGED <<units, shown>>
    /\ UNCHANGED sigterm

NextCollect ==
    \/ CollectEntry
    \/ CollectReallocFails
    \/ CollectReturn

SpecCollect == InitCollect /\ [][NextCollect]_vars

(***************************************************************************)
(* SpecScan: collect_processes (lines 176-231) on namespace listings        *)
(***************************************************************************)
\* ""
NameEmpty == <<>>

\* "0"
NameZero == <<CH_0>>

\* "abc"
NameAbc == <<97, 98, 99>>

\* "07"
NameZeroSeven == <<CH_0, CH_0 + 7>>

\* the entry names of the listings of SpecScan: "", "0", "abc", "self", "1",
\* "2", "7", "07", "17"
ScanNames == {NameEmpty, NameZero, NameAbc, NameSelf, Decimal(1), Decimal(2),
              Decimal(7), NameZeroSeven, Decimal(17)}

\* the names whose process may vanish before its status file is opened
ScanVanishing == {Decimal(7)}

ScanEntries ==
    {[name |-> n, readable |-> TRUE] : n \in ScanNames}
        \cup {[name |-> n, readable |-> FALSE] : n \in ScanVanishing}

\* entries of a listing of SpecScan that starts with none of the leading entries
MaxListing == 5

\* entries of a listing of SpecScan after INITIAL_CAPACITY_SIZE leading entries
MaxAfterFull == 2

\* the i-th leading entry of a long listing: process 100 + i, readable
LeadEntry(i) == [name |-> Decimal(100 + i), readable |-> TRUE]

InitScan ==
    /\ pc = "sc_call"
    /\ selected_index = 0
    /\ should_quit = FALSE
    /\ needs_refresh = TRUE
    /\ clock = Timespec(0, 0)
    /\ last_update = clock
    /\ last_processes = NULL
    /\ last_process_count = 0
    /\ heap = EmptyHeap
    /\ pending = <<>>
    /\ screen = "none"
    /\ dlg = DlgIdle
    /\ ev = EvNone
    /\ fault = {}
    /\ cp = CpIdle
    /\ shown = 0
    /\ scan = ScanIdle
    /\ view = ViewIdle
    /\ mem = MemIdle
    /\ proc = ProcIdle
    /\ sigterm = "inherited"

\* lines 180-183: opendir returns NULL; *count is not written
ScanOpendirFails ==
    /\ pc = "sc_call"
    /\ pc' = "sc_failed"
    /\ scan' = [scan EXCEPT !.cause = "opendir"]
    /\ UNCHANGED <<selected_index, should_quit, needs_refresh, last_update,
                   last_processes, last_process_count, heap, clock, pending,
                   screen, dlg, ev, fault, cp, shown, view, mem, proc>>
    /\ UNCHANGED sigterm

\* lines 188-193: malloc returns NULL
ScanMallocFails ==
    /\ pc = "sc_call"
    /\ pc' = "sc_failed"
    /\ scan' = [scan EXCEPT !.cause = "malloc"]
    /\ UNCHANGED <<selected_index, should_quit, needs_refresh, last_update,
                   last_processes, last_process_count, heap, clock, pending,
                   screen, dlg, ev, fault, cp, shown, view, mem, proc>>
    /\ UNCHANGED sigterm

\* lines 180-195: opendir and malloc succeed
ScanOpen ==
    /\ pc = "sc_call"
    /\ pc' = "sc_loop"
    /\ scan' = [scan EXCEPT !.size = CollectStart.size,
                            !.capacity = CollectStart.capacity,
                            !.reallocs = CollectStart.reallocs]
    /\ UNCHANGED <<selected_index, should_quit, needs_refresh, last_update,
                   last_processes, last_process_count, heap, clock, pending,
                   screen, dlg, ev, fault, cp, shown, view, mem, proc>>
    /\ UNCHANGED sigterm

ScanCounters == [size |-> scan.size, capacity |-> scan.capacity,
                 reallocs |-> scan.reallocs]

\* lines 198-224: the state of the loop after the iteration for entry
ScanAfter(entry, lead) ==
    LET st == CollectIter(ScanCounters, entry)
    IN  [listing  |-> Append(scan.listing, entry),
         lead     |-> lead,
         procs    |-> CollectRecords(scan.procs, entry),
         size     |-> st.size,
         capacity |-> st.capacity,
         reallocs |-> st.reallocs,
         cause    |-> scan.cause]

\* readdir may yield a further entry of ScanEntries: the listing is short, or
\* starts with INITIAL_CAPACITY_SIZE leading entries
ScanMayYield ==
    \/ scan.lead = 0 /\ Len(scan.listing) < MaxListing
    \/ /\ scan.lead = INITIAL_CAPACITY_SIZE
       /\ Len(scan.listing) < INITIAL_CAPACITY_SIZE + MaxAfterFull

\* a directory holds no two entries of the same name
ScanFreshName(entry) ==
    \A i \in DOMAIN scan.listing : scan.listing[i].name # entry.name

\* lines 197-224: readdir yields the next leading entry of a long listing
ScanLeadEntry ==
    /\ pc = "sc_loop"
    /\ scan.lead = Len(scan.listing)
    /\ scan.lead < INITIAL_CAPACITY_SIZE
    /\ scan' = ScanAfter(LeadEntry(scan.lead + 1), scan.lead + 1)
    /\ UNCHANGED <<pc, selected_index, should_quit, needs_refresh, last_update,
                   last_processes, last_process_count, heap, clock, pending,
                   screen, dlg, ev, fault, cp, shown, view, mem, proc>>
    /\ UNCHANGED sigterm

\* lines 197-224: readdir yields an entry; realloc, if called, succeeds
ScanEntry ==
    /\ pc = "sc_loop"
    /\ ScanMayYield
    /\ \E entry \in ScanEntries :
        /\ ScanFreshName(entry)
        /\ scan' = ScanAfter(entry, scan.lead)
    /\ UNCHANGED <<pc, selected_index, should_quit, needs_refresh, last_update,
                   last_processes, last_process_count, heap, clock, pending,
                   screen, dlg, ev, fault, cp, shown, view, mem, proc>>
    /\ UNCHANGED sigterm

\* lines 206-215: the entry is a candidate, the buffer is full and realloc
\* returns NULL: the buffer is freed, NULL returned, *count not written
ScanReallocFails ==
    /\ pc = "sc_loop"
    /\ ScanMayYield
    /\ \E entry \in ScanEntries :
        /\ ScanFreshName(entry)
        /\ CollectAccepts(entry.name)
        /\ CollectMustGrow(scan.size, scan.capacity)
        /\ scan' = [scan EXCEPT !.listing = Append(scan.listing, entry),
                                !.procs = <<>>,
                                !.cause = "realloc"]
    /\ pc' = "sc_failed"
    /\ UNCHANGED <<selected_index, should_quit, needs_refresh, last_update,
                   last_processes, last_process_count, heap, clock, pending,
                   screen, dlg, ev, fault, cp, shown, view, mem, proc>>
    /\ UNCHANGED sigterm

\* lines 197, 227-230: readdir returns NULL; *count = size and the buffer is
\* returned (to main's last_processes, line 479)
ScanReturn ==
    /\ pc = "sc_loop"
    /\ pc' = "sc_returned"
    /\ last_process_count' = scan.size
    /\ heap' = HeapAlloc(heap, scan.procs)
    /\ last_processes' = MallocId(heap)
    /\ UNCHANGED <<selected_index, should_quit, needs_refresh, last_update,
                   clock, pending, screen, dlg, ev, fault, cp, shown, scan,
                   view, mem, proc>>
    /\ UNCHANGED sigterm

NextScan ==
    \/ ScanOpendirFails
    \/ ScanMallocFails
    \/ ScanOpen
    \/ ScanLeadEntry
    \/ ScanEntry
    \/ ScanReallocFails
    \/ ScanReturn

SpecScan == InitScan /\ [][NextScan]_vars

(***************************************************************************)
(* SpecGrow: collect_processes (lines 176-231) on listings that fill the    *)
(* buffer once and twice                                                    *)
(***************************************************************************)
\* the numbers of leading entries after which the buffer is full: for the
\* first time, and again after one doubling
GrowLeads == {INITIAL_CAPACITY_SIZE, CollectNewCapacity(INITIAL_CAPACITY_SIZE)}

\* readdir may yield a further entry of ScanEntries: the leading entries have
\* just filled the buffer, and at most MaxAfterFull entries follow them
GrowMayYield ==
    /\ scan.lead \in GrowLeads
    /\ Len(scan.listing) < scan.lead + MaxAfterFull

\* lines 197-224: readdir yields the next leading entry; realloc, called for
\* the first entry after INITIAL_CAPACITY_SIZE, succeeds
GrowLeadEntry ==
    /\ pc = "sc_loop"
    /\ scan.lead = Len(scan.listing)
    /\ \E n \in GrowLeads : scan.lead < n
    /\ scan' = ScanAfter(LeadEntry(scan.lead + 1), scan.lead + 1)
    /\ UNCHANGED <<pc, selected_index, should_quit, needs_refresh, last_update,
                   last_processes, last_process_count, heap, clock, pending,
                   screen, dlg, ev, fault, cp, shown, view, mem, proc>>
    /\ UNCHANGED sigterm

\* lines 197-224: readdir yields an entry; realloc, if called, succeeds
GrowEntry ==
    /\ pc = "sc_loop"
    /\ GrowMayYield
    /\ \E entry \in ScanEntries :
        /\ ScanFreshName(entry)
        /\ scan' = ScanAfter(entry, scan.lead)
    /\ UNCHANGED <<pc, selected_index, should_quit, needs_refresh, last_update,
                   last_processes, last_process_count, heap, clock, pending,
                   screen, dlg, ev, fault, cp, shown, view, mem, proc>>
    /\ UNCHANGED sigterm

\* the entries readdir may yield next
GrowNextEntries ==
    (IF GrowMayYield THEN {entry \in ScanEntries : ScanFreshName(entry)} ELSE {})
        \cup (IF scan.lead = Len(scan.listing) /\ \E n \in GrowLeads : scan.lead < n
              THEN {LeadEntry(scan.lead + 1)} ELSE {})

\* lines 206-215: the entry is a candidate, the buffer is full and realloc
\* returns NULL: the buffer is freed, NULL returned, *count not written
GrowReallocFails ==
    /\ pc = "sc_loop"
    /\ \E entry \in GrowNextEntries :
        /\ CollectAccepts(entry.name)
        /\ CollectMustGrow(scan.size, scan.capacity)
        /\ scan' = [scan EXCEPT !.listing = Append(scan.listing, entry),
                                !.procs = <<>>,
                                !.cause = "realloc"]
    /\ pc' = "sc_failed"
    /\ UNCHANGED <<selected_index, should_quit, needs_refresh, last_update,
                   last_processes, last_process_count, heap, clock, pending,
                   screen, dlg, ev, fault, cp, shown, view, mem, proc>>
    /\ UNCHANGED sigterm

NextGrow ==
    \/ ScanOpendirFails
    \/ ScanMallocFails
    \/ ScanOpen
    \/ GrowLeadEntry
    \/ GrowEntry
    \/ GrowReallocFails
    \/ ScanReturn

SpecGrow == InitScan /\ [][NextGrow]_vars

(***************************************************************************)
(* SpecView: render_process_list (lines 371-428) on terminal heights,       *)
(* counts and selections                                                    *)
(***************************************************************************)
\* the tallest terminal of SpecView, in rows
MaxTermRows == 17

\* the longest snapshot of SpecView
MaxCount == 50

\* lines 392-396
VisibleRows(max_y) == IF max_y - 7 < 0 THEN 0 ELSE max_y - 7

\* line 401 without the + 1
StartIdxSelectionBelow(sel, visible_rows, count) ==
    IF count > 0 /\ sel >= visible_rows THEN sel - visible_rows ELSE 0

\* lines 398-402
StartIdx(sel, visible_rows, count) ==
    IF count > 0 /\ sel >= visible_rows THEN sel - visible_rows + 1 ELSE 0

\* line 404 with <= for the second <
RowLoopGuardThrough(i, visible_rows, start_idx, count) ==
    i < visible_rows /\ i + start_idx <= count

\* line 404: the condition of the loop over the rows
RowLoopGuard(i, visible_rows, start_idx, count) ==
    i < visible_rows /\ i + start_idx < count

\* the snapshot main holds: count records, pids 1 .. count
ViewRecords(count) == [k \in 1 .. count |-> k]

InitView ==
    /\ pc = "rv_call"
    /\ last_process_count \in 0 .. MaxCount
    /\ selected_index \in 0 .. (IF last_process_count = 0 THEN 0
                               ELSE last_process_count - 1)
    /\ view \in {[ViewIdle EXCEPT !.max_y = h] : h \in 1 .. MaxTermRows}
    /\ should_quit = FALSE
    /\ needs_refresh = FALSE
    /\ clock = Timespec(0, 0)
    /\ last_update = clock
    /\ heap = HeapAlloc(EmptyHeap, ViewRecords(last_process_count))
    /\ last_processes = MallocId(EmptyHeap)
    /\ pending = <<>>
    /\ screen = "none"
    /\ dlg = DlgIdle
    /\ ev = EvNone
    /\ fault = {}
    /\ cp = CpIdle
    /\ shown = 0
    /\ scan = ScanIdle
    /\ mem = MemIdle
    /\ proc = ProcIdle
    /\ sigterm = "inherited"

\* lines 373-402: the height is read, visible_rows and start_idx computed
RenderStart ==
    /\ pc = "rv_call"
    /\ last_processes # NULL
    /\ LET visible_rows == VisibleRows(view.max_y)
       IN  view' = [view EXCEPT
                      !.visible_rows = visible_rows,
                      !.start_idx = StartIdx(selected_index, visible_rows,
                                             last_process_count),
                      !.i = 0]
    /\ pc' = "rv_loop"
    /\ UNCHANGED <<selected_index, should_quit, needs_refresh, last_update,
                   last_processes, last_process_count, heap, clock, pending,
                   screen, dlg, ev, fault, cp, shown, scan, mem, proc>>
    /\ UNCHANGED sigterm

\* lines 404-418: one row is drawn, highlighted if it is the selected one;
\* the record is read from the buffer
RenderRow ==
    /\ pc = "rv_loop"
    /\ RowLoopGuard(view.i, view.visible_rows, view.start_idx, last_process_count)
    /\ LET process_idx == view.i + view.start_idx
       IN  /\ view' = [view EXCEPT
                         !.rows = Append(view.rows, process_idx),
                         !.highlighted = IF process_idx = selected_index
                                         THEN process_idx
                                         ELSE view.highlighted,
                         !.i = view.i + 1]
           /\ fault' = fault \cup ReadFault(heap, last_processes)
                             \cup (IF process_idx + 1 \in DOMAIN heap[last_processes]
                                   THEN {} ELSE {"out_of_bounds"})
    /\ UNCHANGED <<pc, selected_index, should_quit, needs_refresh, last_update,
                   last_processes, last_process_count, heap, clock, pending,
                   screen, dlg, ev, cp, shown, scan, mem, proc>>
    /\ UNCHANGED sigterm

\* lines 404, 420-427: the loop ends, the status lines are drawn
RenderDone ==
    /\ pc = "rv_loop"
    /\ ~RowLoopGuard(view.i, view.visible_rows, view.start_idx, last_process_count)
    /\ pc' = "rv_done"
    /\ screen' = "list"
    /\ UNCHANGED <<selected_index, should_quit, needs_refresh, last_update,
                   last_processes, last_process_count, heap, clock, pending,
                   dlg, ev, fault, cp, shown, scan, view, mem, proc>>
    /\ UNCHANGED sigterm

NextView ==
    \/ RenderStart
    \/ RenderRow
    \/ RenderDone

SpecView == InitView /\ [][NextView]_vars

(***************************************************************************)
(* SpecMem: read_system_memory_info (lines 139-174), the zero-fill of main  *)
(* (lines 481-483) and render_memory_info (lines 327-369)                   *)
(***************************************************************************)
\* a line holds, after its key, <<v>>: text that sscanf's %ld converts to v,
\* or <<>>: text that it cannot convert
MemJunk == <<>>

\* the values of the lines of SpecMem, in kB
MemValues == {1, 3}

\* a line of the source: the text up to the colon, and what follows it
MemLines ==
    {[key |-> k, val |-> <<v>>] : k \in MemKeys, v \in MemValues}
        \cup {[key |-> "MemFree:", val |-> MemJunk],
              [key |-> "SwapCached:", val |-> <<3>>]}

\* the lines of a memory source of SpecMem
MaxMemLines == 3

\* line 144 left out
MemsetSkipped(sample) == sample

\* line 144 (and line 482): memset(mem_info, 0, sizeof(SystemMemoryInfo))
Memset(sample) == MemZero

\* lines 154-168: the strncmp chain and the sscanf of the branch taken; a
\* field is assigned only if the key is recognised and %ld converts
MemParseLine(sample, line) ==
    IF line.key \in MemKeys /\ line.val # MemJunk
    THEN [sample EXCEPT ![MemFieldOf(line.key)] = line.val[1]]
    ELSE sample

\* lines 338-351 in kB: the figures are these divided by 1024.0, a division
\* and subtractions that are exact in double, so the sign is that of the kB
\* difference
MemUsed(sample) ==
    LET used == sample.mem_total_kb - sample.mem_free_kb - sample.mem_cached_kb
    IN  IF used < 0 THEN 0 ELSE used

SwapUsed(sample) ==
    LET used == sample.swap_total_kb - sample.swap_free_kb
    IN  IF used < 0 THEN 0 ELSE used

\* what an earlier refresh left in last_mem_info: nothing, or a full sample
MemPrior == {MemZero, [f \in MemFields |-> 3]}

InitMem ==
    /\ pc = "mi_call"
    /\ mem \in {[MemIdle EXCEPT !.sample = s] : s \in MemPrior}
    /\ selected_index = 0
    /\ should_quit = FALSE
    /\ needs_refresh = FALSE
    /\ clock = Timespec(0, 0)
    /\ last_update = clock
    /\ last_processes = NULL
    /\ last_process_count = 0
    /\ heap = EmptyHeap
    /\ pending = <<>>
    /\ screen = "none"
    /\ dlg = DlgIdle
    /\ ev = EvNone
    /\ fault = {}
    /\ cp = CpIdle
    /\ shown = 0
    /\ scan = ScanIdle
    /\ view = ViewIdle
    /\ proc = ProcIdle
    /\ sigterm = "inherited"

\* lines 144-151 and 481-483: fopen fails, false is returned, main zero-fills
MemOpenFails ==
    /\ pc = "mi_call"
    /\ mem' = [mem EXCEPT !.opened = FALSE, !.lines = <<>>,
                          !.sample = Memset(Memset(mem.sample))]
    /\ pc' = "mi_read"
    /\ UNCHANGED <<selected_index, should_quit, needs_refresh, last_update,
                   last_processes, last_process_count, heap, clock, pending,
                   screen, dlg, ev, fault, cp, shown, scan, view, proc>>
    /\ UNCHANGED sigterm

\* lines 144-151: the sample is zeroed and the source opened
MemOpen ==
    /\ pc = "mi_call"
    /\ mem' = [mem EXCEPT !.opened = TRUE, !.lines = <<>>,
                          !.sample = Memset(mem.sample)]
    /\ pc' = "mi_loop"
    /\ UNCHANGED <<selected_index, should_quit, needs_refresh, last_update,
                   last_processes, last_process_count, heap, clock, pending,
                   screen, dlg, ev, fault, cp, shown, scan, view, proc>>
    /\ UNCHANGED sigterm

\* lines 153-169: fgets yields a line
MemLine ==
    /\ pc = "mi_loop"
    /\ Len(mem.lines) < MaxMemLines
    /\ \E line \in MemLines :
        mem' = [mem EXCEPT !.lines = Append(mem.lines, line),
                           !.sample = MemParseLine(mem.sample, line)]
    /\ UNCHANGED <<pc, selected_index, should_quit, needs_refresh, last_update,
                   last_processes, last_process_count, heap, clock, pending,
                   screen, dlg, ev, fault, cp, shown, scan, view, proc>>
    /\ UNCHANGED sigterm

\* lines 153, 171-173: fgets returns NULL; true is returned
MemEof ==
    /\ pc = "mi_loop"
    /\ pc' = "mi_read"
    /\ UNCHANGED <<selected_index, should_quit, needs_refresh, last_update,
                   last_processes, last_process_count, heap, clock, pending,
                   screen, dlg, ev, fault, cp, shown, scan, view, mem, proc>>
    /\ UNCHANGED sigterm

\* lines 338-363: the figures render_memory_info prints
MemRender ==
    /\ pc = "mi_read"
    /\ mem' = [mem EXCEPT !.display = [total      |-> mem.sample.mem_total_kb,
                                       free       |-> mem.sample.mem_free_kb,
                                       used       |-> MemUsed(mem.sample),
                                       cached     |-> mem.sample.mem_cached_kb,
                                       swap_total |-> mem.sample.swap_total_kb,
                                       swap_free  |-> mem.sample.swap_free_kb,
                                       swap_used  |-> SwapUsed(mem.sample),
                                       available  |-> mem.sample.mem_available_kb]]
    /\ pc' = "mi_shown"
    /\ UNCHANGED <<selected_index, should_quit, needs_refresh, last_update,
                   last_processes, last_process_count, heap, clock, pending,
                   screen, dlg, ev, fault, cp, shown, scan, view, proc>>
    /\ UNCHANGED sigterm

NextMem ==
    \/ MemOpenFails
    \/ MemOpen
    \/ MemLine
    \/ MemEof
    \/ MemRender

SpecMem == InitMem /\ [][NextMem]_vars

(***************************************************************************)
(* SpecProc: read_process_info (lines 70-137) on status sources, called by  *)
(* collect_processes (lines 221-224)                                        *)
(***************************************************************************)
\* '\t'
CH_TAB == 9

\* '\n'
CH_NL == 10

\* ' '
CH_SPACE == 32

\* '?'
CH_QUESTION == 63

\* isspace in the C locale (lines 92, 106)
IsSpace(c) == c \in {CH_TAB, CH_NL, CH_NL + 1, CH_NL + 2, CH_NL + 3, CH_SPACE}

\* lines 92-94, 106-108: the index of the first character at or after i that
\* is not white space, Len(text) + 1 if there is none
RECURSIVE SkipSpaceFrom(_, _)
SkipSpaceFrom(text, i) ==
    IF i > Len(text) \/ ~IsSpace(text[i]) THEN i
    ELSE SkipSpaceFrom(text, i + 1)

\* lines 96-102: the characters from i up to the first newline
RECURSIVE UntilNewlineFrom(_, _)
UntilNewlineFrom(text, i) ==
    IF i > Len(text) \/ text[i] = CH_NL THEN <<>>
    ELSE <<text[i]>> \o UntilNewlineFrom(text, i + 1)

\* lines 91-102: the name a Name line gives (text: what follows "Name:");
\* strncpy's limit of 127 characters is beyond the names of the model
ProcNameOf(text) == UntilNewlineFrom(text, SkipSpaceFrom(text, 1))

\* lines 105-112: <<c>>, c the state a State line gives, or <<>>
ProcStateOf(text) ==
    LET i == SkipSpaceFrom(text, 1)
    IN  IF i > Len(text) THEN <<>> ELSE <<text[i]>>

\* line 114: <<n>>, n what sscanf's %lu converts, or <<>> if it converts
\* nothing (no line of the model has a sign)
ProcRssOf(text) ==
    LET i == SkipSpaceFrom(text, 1)
    IN  IF i <= Len(text) /\ text[i] >= CH_0 /\ text[i] <= CH_9
        THEN <<AtoiFrom(text, i, 0)>>
        ELSE <<>>

\* line 90 without !name_found
ProcNameBranchAgain(found, key) == key = "Name:"

\* line 90: the condition of the first branch
ProcNameBranch(found, key) == ~found.name /\ key = "Name:"

\* lines 90-117: [record, found] after a line [key, text], key the text up to
\* the colon that strncmp compares, text what follows it
ProcParseLine(st, line) ==
    IF ProcNameBranch(st.found, line.key)
    THEN [record |-> [st.record EXCEPT !.name = ProcNameOf(line.text)],
          found  |-> [st.found EXCEPT !.name = TRUE]]
    ELSE IF ~st.found.state /\ line.key = "State:"
    THEN IF ProcStateOf(line.text) # <<>>
         THEN [record |-> [st.record EXCEPT !.state = ProcStateOf(line.text)[1]],
               found  |-> [st.found EXCEPT !.state = TRUE]]
         ELSE st
    ELSE IF ~st.found.rss /\ line.key = "VmRSS:"
    THEN IF ProcRssOf(line.text) # <<>>
         THEN [record |-> [st.record EXCEPT !.vm_rss_kb = ProcRssOf(line.text)[1]],
               found  |-> [st.found EXCEPT !.rss = TRUE]]
         ELSE st
    ELSE st

\* lines 126-134
ProcDefaults(st) ==
    [name      |-> IF st.found.name THEN st.record.name ELSE <<CH_QUESTION>>,
     state     |-> IF st.found.state THEN st.record.state ELSE CH_QUESTION,
     vm_rss_kb |-> IF st.found.rss THEN st.record.vm_rss_kb ELSE 0]

\* line 119
ProcAllFound(found) == found.name /\ found.state /\ found.rss

\* the texts of the lines of SpecProc: "\tsh\n", "ab\n", "\n"; "\tS\n",
\* "\tR x\n", "\t\n"; "\t4 kB\n", " 12 kB\n", "\tkB\n"; and the line "Pid:\t1\n"
StatusLines ==
    {[key |-> "Name:",  text |-> <<CH_TAB, 115, 104, CH_NL>>],
     [key |-> "Name:",  text |-> <<97, 98, CH_NL>>],
     [key |-> "Name:",  text |-> <<CH_NL>>],
     [key |-> "State:", text |-> <<CH_TAB, 83, CH_NL>>],
     [key |-> "State:", text |-> <<CH_TAB, 82, CH_SPACE, 120, CH_NL>>],
     [key |-> "State:", text |-> <<CH_TAB, CH_NL>>],
     [key |-> "VmRSS:", text |-> <<CH_TAB, CH_0 + 4, CH_SPACE, 107, 66, CH_NL>>],
     [key |-> "VmRSS:", text |-> <<CH_SPACE, CH_0 + 1, CH_0 + 2, CH_SPACE, 107, 66, CH_NL>>],
     [key |-> "VmRSS:", text |-> <<CH_TAB, 107, 66, CH_NL>>],
     [key |-> "Pid:",   text |-> <<CH_TAB, CH_0 + 1, CH_NL>>]}

\* the lines of a status source of SpecProc
MaxStatusLines == 4

\* what the slot processes[size] holds before the call: the pid (line 221)
\* and whatever malloc or an earlier candidate left
ProcStaleRecords ==
    {[name |-> <<>>, state |-> 0, vm_rss_kb |-> 0],
     [name |-> <<120>>, state |-> 90, vm_rss_kb |-> 7]}

InitProc ==
    /\ pc = "pi_call"
    /\ proc \in {[ProcIdle EXCEPT !.record = r] : r \in ProcStaleRecords}
    /\ scan = [ScanIdle EXCEPT !.capacity = CollectStart.capacity]
    /\ selected_index = 0
    /\ should_quit = FALSE
    /\ needs_refresh = FALSE
    /\ clock = Timespec(0, 0)
    /\ last_update = clock
    /\ last_processes = NULL
    /\ last_process_count = 0
    /\ heap = EmptyHeap
    /\ pending = <<>>
    /\ screen = "none"
    /\ dlg = DlgIdle
    /\ ev = EvNone
    /\ fault = {}
    /\ cp = CpIdle
    /\ shown = 0
    /\ view = ViewIdle
    /\ mem = MemIdle
    /\ sigterm = "inherited"

\* the entry of the namespace that the call is made for: process 1
ProcEntry(readable) == [name |-> Decimal(1), readable |-> readable]

\* lines 221-224: the counters and records of collect_processes after the call
ProcCollected(readable) ==
    LET st == CollectIter(ScanCounters, ProcEntry(readable))
    IN  [scan EXCEPT !.listing = Append(scan.listing, ProcEntry(readable)),
                     !.procs = CollectRecords(scan.procs, ProcEntry(readable)),
                     !.size = st.size,
                     !.capacity = st.capacity,
                     !.reallocs = st.reallocs]

\* lines 78-83, 222: fopen fails, false is returned, size stays
ProcOpenFails ==
    /\ pc = "pi_call"
    /\ proc' = [proc EXCEPT !.opened = FALSE, !.ret = FALSE]
    /\ scan' = ProcCollected(FALSE)
    /\ pc' = "pi_returned"
    /\ UNCHANGED <<selected_index, should_quit, needs_refresh, last_update,
                   last_processes, last_process_count, heap, clock, pending,
                   screen, dlg, ev, fault, cp, shown, view, mem>>
    /\ UNCHANGED sigterm

\* lines 78-87: fopen succeeds, nothing found yet
ProcOpen ==
    /\ pc = "pi_call"
    /\ proc' = [proc EXCEPT !.opened = TRUE,
                            !.found = [name |-> FALSE, state |-> FALSE, rss |-> FALSE]]
    /\ pc' = "pi_loop"
    /\ UNCHANGED <<selected_index, should_quit, needs_refresh, last_update,
                   last_processes, last_process_count, heap, clock, pending,
                   screen, dlg, ev, fault, cp, shown, scan, view, mem>>
    /\ UNCHANGED sigterm

\* lines 89-122: fgets yields a line; the loop is left once all three fields
\* are found
ProcLine ==
    /\ pc = "pi_loop"
    /\ Len(proc.lines) < MaxStatusLines
    /\ \E line \in StatusLines :
        LET st == ProcParseLine([record |-> proc.record, found |-> proc.found], line)
        IN  /\ proc' = [proc EXCEPT !.lines = Append(proc.lines, line),
                                    !.record = st.record,
                                    !.found = st.found]
            /\ pc' = IF ProcAllFound(st.found) THEN "pi_close" ELSE "pi_loop"
    /\ UNCHANGED <<selected_index, should_quit, needs_refresh, last_update,
                   last_processes, last_process_count, heap, clock, pending,
                   screen, dlg, ev, fault, cp, shown, scan, view, mem>>
    /\ UNCHANGED sigterm

\* line 89: fgets returns NULL
ProcEof ==
    /\ pc = "pi_loop"
    /\ pc' = "pi_close"
    /\ UNCHANGED <<selected_index, should_quit, needs_refresh, last_update,
                   last_processes, last_process_count, heap, clock, pending,
                   screen, dlg, ev, fault, cp, shown, scan, view, mem, proc>>
    /\ UNCHANGED sigterm

\* lines 124-136, 222-224: the defaults, true is returned, size++
ProcFinish ==
    /\ pc = "pi_close"
    /\ proc' = [proc EXCEPT
                  !.record = ProcDefaults([record |-> proc.record, found |-> proc.found]),
                  !.ret = TRUE]
    /\ scan' = ProcCollected(TRUE)
    /\ pc' = "pi_returned"
    /\ UNCHANGED <<selected_index, should_quit, needs_refresh, last_update,
                   last_processes, last_process_count, heap, clock, pending,
                   screen, dlg, ev, fault, cp, shown, view, mem>>
    /\ UNCHANGED sigterm

NextProc ==
    \/ ProcOpenFails
    \/ ProcOpen
    \/ ProcLine
    \/ ProcEof
    \/ ProcFinish

SpecProc == InitProc /\ [][NextProc]_vars

(***************************************************************************)
(* SpecV2: the second variant (lines 518-939): main (lines 899-940) with    *)
(* handle_user_input (lines 738-779) and terminate_process_with_dialog      *)
(* (lines 781-822). The variables of the first variant's loop stand for the *)
(* second's: last_processes and last_process_count for main's processes     *)
(* and process_count, dlg.proc for the dialog's argument pid, shown for the *)
(* pid of the record render_ui was given as the selected one.               *)
(***************************************************************************)
\* line 892: timeout(REFRESH_INTERVAL_MS), the delay of reads on stdscr
V2StdscrDelay == REFRESH_INTERVAL_MS

\* line 743: getch reads stdscr
V2getch(queue) == ReadOutcomes(V2StdscrDelay, queue)

\* lines 902-903
InitV2 ==
    /\ pc = "v2_top"
    /\ selected_index = 0
    /\ should_quit = FALSE
    /\ needs_refresh = TRUE
    /\ clock = Timespec(0, 0)
    /\ last_update = clock
    /\ last_processes = NULL
    /\ last_process_count = 0
    /\ heap = EmptyHeap
    /\ pending = <<>>
    /\ screen = "none"
    /\ dlg = DlgIdle
    /\ ev = EvNone
    /\ fault = {}
    /\ cp = CpIdle
    /\ UnitsIdle
    /\ shown = 0
    /\ sigterm = "inherited"

\* lines 920-926
V2ClampSelection(sel, count) ==
    IF count > 0
    THEN IF sel >= count THEN count - 1 ELSE sel
    ELSE 0

\* line 935 and the end of the loop body: free(processes); processes and
\* process_count are declared anew by the next iteration (lines 906-907)
V2FreeSnapshot ==
    /\ heap' = HeapFree(heap, last_processes)
    /\ last_processes' = NULL
    /\ last_process_count' = 0

\* line 905 false, lines 938-939
V2Exit ==
    /\ pc = "v2_top"
    /\ should_quit
    /\ pc' = "v2_done"
    /\ ev' = EvNone
    /\ UNCHANGED <<selected_index, should_quit, needs_refresh, last_update,
                   last_processes, last_process_count, heap, clock, pending,
                   screen, dlg, fault, cp>>
    /\ UNCHANGED <<units, shown>>
    /\ UNCHANGED sigterm

\* lines 905-913: collect_processes returns NULL; refresh, sleep(1), continue
V2CollectFails ==
    /\ pc = "v2_top"
    /\ ~should_quit
    /\ pc' = "v2_top"
    /\ ev' = [EvNone EXCEPT !.collected = TRUE]
    /\ UNCHANGED <<selected_index, should_quit, needs_refresh, last_update,
                   last_processes, last_process_count, heap, clock, pending,
                   screen, dlg, fault, cp>>
    /\ UNCHANGED <<units, shown>>
    /\ UNCHANGED sigterm

\* lines 905-926: collect_processes returns a buffer, on whatever the process
\* table is now; the selection is clamped against its count
V2Collect ==
    /\ pc = "v2_top"
    /\ ~should_quit
    /\ \E got \in CollectResults :
        /\ heap' = HeapAlloc(heap, got.procs)
        /\ last_processes' = MallocId(heap)
        /\ last_process_count' = got.st.size
        /\ selected_index' = V2ClampSelection(selected_index, got.st.size)
    /\ pc' = "v2_render"
    /\ ev' = [EvNone EXCEPT !.collected = TRUE,
                            !.was_sel = selected_index, !.was_count = last_process_count]
    /\ UNCHANGED <<should_quit, needs_refresh, last_update, clock, pending,
                   screen, dlg, fault, cp>>
    /\ UNCHANGED <<units, shown>>
    /\ UNCHANGED sigterm

\* lines 928-931: needs_refresh is set; render_ui is given selected_index as
\* the row to highlight (lines 858-860) and draws the new snapshot
V2Render ==
    /\ pc = "v2_render"
    /\ needs_refresh
    /\ screen' = "list"
    /\ shown' \in RecordPid(heap, last_processes, selected_index)
    /\ needs_refresh' = FALSE
    /\ pc' = "v2_input"
    /\ ev' = EvNone
    /\ UNCHANGED <<selected_index, should_quit, last_update, last_processes,
                   last_process_count, heap, clock, pending, dlg, fault, cp>>
    /\ UNCHANGED units
    /\ UNCHANGED sigterm

\* line 928 false: the screen keeps what the latest render_ui call drew
V2RenderSkip ==
    /\ pc = "v2_render"
    /\ ~needs_refresh
    /\ pc' = "v2_input"
    /\ ev' = EvNone
    /\ UNCHANGED <<selected_index, should_quit, needs_refresh, last_update,
                   last_processes, last_process_count, heap, clock, pending,
                   screen, dlg, fault, cp>>
    /\ UNCHANGED <<units, shown>>
    /\ UNCHANGED sigterm

\* line 765
V2KillGuard(sel, count) == count > 0 /\ sel < count

\* lines 745-778 without the dialog: the AppState fields after key ch ('Q',
\* 'K' and 'R' are not cases of this switch)
V2DispatchKey(ch, sel, count, sq, nr) ==
    CASE ch = CH_q     -> [sel |-> sel, sq |-> TRUE, nr |-> nr]
      [] ch = KEY_UP   -> [sel |-> KeyUpMove(sel).sel, sq |-> sq,
                           nr |-> nr \/ KeyUpMove(sel).moved]
      [] ch = KEY_DOWN -> [sel |-> KeyDownMove(sel, count).sel, sq |-> sq,
                           nr |-> nr \/ KeyDownMove(sel, count).moved]
      [] ch = CH_r     -> [sel |-> sel, sq |-> sq, nr |-> TRUE]
      [] OTHER -> [sel |-> sel, sq |-> sq, nr |-> nr]

\* line 767: processes[state->selected_index].pid, read from the snapshot of
\* this iteration
V2ArgPid(h, p, i) ==
    IF p \in DOMAIN h /\ i + 1 \in DOMAIN h[p] THEN {h[p][i + 1]} ELSE Pids

\* lines 933-935, 743-778: getch returns a key or, after 3000 ms, ERR; 'k'
\* with the guard of line 765 calls terminate_process_with_dialog with the pid
\* of the selected record, whose newwin (line 788) may fail; otherwise the
\* switch runs and the snapshot is freed
V2Input ==
    /\ pc = "v2_input"
    /\ \E ch \in V2getch(pending) :
        /\ pending' = (IF pending = <<>> THEN pending ELSE Tail(pending))
        /\ IF ch = CH_k /\ V2KillGuard(selected_index, last_process_count)
           THEN \E win_ok \in BOOLEAN :
                \E pid \in V2ArgPid(heap, last_processes, selected_index) :
                  IF win_ok
                  THEN /\ pc' = "v2_dlg_choice"
                       /\ dlg' = [proc |-> pid, sent |-> 0, msg |-> "none"]
                       /\ UNCHANGED <<selected_index, should_quit, needs_refresh,
                                      heap, last_processes, last_process_count>>
                  ELSE /\ pc' = "v2_top"
                       /\ needs_refresh' = TRUE
                       /\ V2FreeSnapshot
                       /\ UNCHANGED <<selected_index, should_quit, dlg>>
           ELSE LET after == V2DispatchKey(ch, selected_index, last_process_count,
                                           should_quit, needs_refresh)
                IN  /\ selected_index' = after.sel
                    /\ should_quit' = after.sq
                    /\ needs_refresh' = after.nr
                    /\ pc' = "v2_top"
                    /\ V2FreeSnapshot
                    /\ UNCHANGED dlg
    /\ ev' = EvNone
    /\ UNCHANGED <<last_update, clock, screen, fault, cp>>
    /\ UNCHANGED <<units, shown>>
    /\ UNCHANGED sigterm

\* line 804: the first read of the dialog; any key but '1' closes it, and
\* handle_user_input sets needs_refresh (line 768); line 935
V2DialogChoice ==
    /\ pc = "v2_dlg_choice"
    /\ \E ch \in wgetch(pending) :
        /\ pending' = (IF pending = <<>> THEN pending ELSE Tail(pending))
        /\ ev' = [EvNone EXCEPT !.dkey = <<ch>>]
        /\ IF DialogConfirms(ch)
           THEN /\ pc' = "v2_dlg_submit"
                /\ UNCHANGED <<needs_refresh, dlg, heap, last_processes,
                               last_process_count>>
           ELSE /\ pc' = "v2_top"
                /\ needs_refresh' = TRUE
                /\ dlg' = DlgIdle
                /\ V2FreeSnapshot
    /\ UNCHANGED <<selected_index, should_quit, last_update, clock, screen,
                   fault, cp>>
    /\ UNCHANGED <<units, shown>>
    /\ UNCHANGED sigterm

\* lines 806-816: kill(pid, SIGTERM) with the argument of the call, and the
\* message of its outcome; a program ended by its own signal ends inside kill
V2DialogSubmit ==
    /\ pc = "v2_dlg_submit"
    /\ ev' = [EvNone EXCEPT !.killed = dlg.proc]
    /\ \E outcome \in KillOutcomes(dlg.proc, sigterm) :
        IF outcome = "terminated"
        THEN /\ dlg' = [dlg EXCEPT !.sent = dlg.sent + 1]
             /\ pc' = "v2_killed"
             /\ sigterm' = sigterm
        ELSE /\ dlg' = [dlg EXCEPT !.sent = dlg.sent + 1, !.msg = outcome]
             /\ pc' = "v2_dlg_result"
             /\ sigterm' = SigtermAfterReturn(dlg.proc, sigterm)
    /\ UNCHANGED <<selected_index, should_quit, needs_refresh, last_update,
                   last_processes, last_process_count, heap, clock,
                   pending, screen, fault, cp>>
    /\ UNCHANGED <<units, shown>>

\* lines 817-821, 768, 935: the second read; any key closes the dialog
V2DialogResult ==
    /\ pc = "v2_dlg_result"
    /\ \E ch \in wgetch(pending) :
        /\ pending' = (IF pending = <<>> THEN pending ELSE Tail(pending))
        /\ ev' = [EvNone EXCEPT !.dkey = <<ch>>]
    /\ pc' = "v2_top"
    /\ needs_refresh' = TRUE
    /\ dlg' = DlgIdle
    /\ V2FreeSnapshot
    /\ UNCHANGED <<selected_index, should_quit, last_update, clock, screen,
                   fault, cp>>
    /\ UNCHANGED <<units, shown>>
    /\ UNCHANGED sigterm

\* the user presses a key while the program waits in a read
V2KeyPress(k) ==
    /\ pc \in {"v2_input", "v2_dlg_choice", "v2_dlg_result"}
    /\ pending = <<>>
    /\ pending' = <<k>>
    /\ ev' = EvNone
    /\ UNCHANGED <<pc, selected_index, should_quit, needs_refresh, last_update,
                   last_processes, last_process_count, heap, clock,
                   screen, dlg, fault, cp>>
    /\ UNCHANGED <<units, shown>>
    /\ UNCHANGED sigterm

NextV2 ==
    \/ V2Exit
    \/ V2CollectFails
    \/ V2Collect
    \/ V2Render
    \/ V2RenderSkip
    \/ V2Input
    \/ V2DialogChoice
    \/ V2DialogSubmit
    \/ V2DialogResult
    \/ \E k \in Keys : V2KeyPress(k)

SpecV2 == InitV2 /\ [][NextV2]_vars

(***************************************************************************)
(* Claims                                                                   *)
(***************************************************************************)
Max(a, b) == IF a >= b THEN a ELSE b

SelectionInvariant ==
    /\ 0 <= selected_index
    /\ selected_index < Max(1, last_process_count)
    /\ last_process_count = 0 => selected_index = 0

\* C1: in every state of the main loop (so at every render and every input
\* dispatch) 0 <= selected_index < max(1, count), and selected_index = 0 when
\* count = 0; a refresh that finds selected_index 4 of count 5 and collects 2
\* records leaves selected_index = 1.
C1_SelectionInvariant ==
    /\ SelectionInvariant
    /\ (ev.collected /\ ev.was_count = 5 /\ ev.was_sel = 4 /\ last_process_count = 2)
          => selected_index = 1

C1_Witness ==
    /\ pc = "render"
    /\ ev.collected
    /\ ev.was_count = 5
    /\ ev.was_sel = 4
    /\ last_process_count = 2
    /\ selected_index = 1

\* C2: the dialog opens from Idle into AwaitingConfirmation only (by 'k' or
\* 'K' in the main loop); its first key, if '1', leads to SubmittingSignal,
\* where exactly one SIGTERM is sent and ResultDisplayed follows whether the
\* delivery succeeded or failed (the failure's error text in the message), and
\* the next key returns to Idle; any other first key returns to Idle with no
\* signal sent. No signal is sent anywhere else.
C2_DialogStateMachine ==
    [][ /\ (DialogState = "Idle" /\ DialogState' # "Idle")
              => /\ DialogState' = "AwaitingConfirmation"
                 /\ pc = "input"
                 /\ pending \in {<<CH_k>>, <<CH_K>>}
                 /\ dlg'.sent = 0
        /\ (pc = "dlg_choice" /\ pc' # pc)
              => /\ ev'.dkey # <<>>
                 /\ IF ev'.dkey = <<CH_1>>
                    THEN DialogState' = "SubmittingSignal"
                    ELSE DialogState' = "Idle" /\ dlg.sent = 0
        /\ (pc = "dlg_submit" /\ pc' # pc)
              => /\ DialogState' = "ResultDisplayed"
                 /\ ev'.killed # 0
                 /\ dlg.sent = 0
                 /\ dlg'.sent = 1
                 /\ dlg'.msg \in {"success"} \cup KillErrors
        /\ (pc = "dlg_result" /\ pc' # pc)
              => /\ DialogState' = "Idle"
                 /\ ev'.dkey # <<>>
                 /\ dlg.sent = 1
        /\ ev'.killed # 0 => pc = "dlg_submit"
      ]_vars

\* C3: a step in which the dialog consumes a key (in AwaitingConfirmation or
\* ResultDisplayed) leaves should_quit and selected_index as they were and
\* opens no dialog.
C3_DialogModal ==
    [][ (pc \in {"dlg_choice", "dlg_result"} /\ ev'.dkey # <<>>)
            => /\ should_quit' = should_quit
               /\ selected_index' = selected_index
               /\ DialogState' # "AwaitingConfirmation"
               /\ dlg' \in {dlg, DlgIdle}
      ]_vars

C3_Witness ==
    /\ pc = "top"
    /\ ev.dkey \in {<<CH_q>>, <<KEY_DOWN>>, <<CH_k>>}
    /\ ~should_quit
    /\ selected_index < last_process_count - 1

\* C5: a should_refresh call of the main loop that returns true (the flag set,
\* or 3000 ms elapsed) sets last_update to the time read, the loop clears
\* needs_refresh, and a second call at the same time would return false; a
\* call that returns false changes neither last_update nor needs_refresh.
C5_RefreshIdempotent ==
    [][ (pc = "top" /\ pc' = "render")
            => IF ev'.fired
               THEN /\ last_update' = clock
                    /\ ~needs_refresh'
                    /\ ~ShouldRefreshFires(clock, last_update', needs_refresh')
               ELSE /\ last_update' = last_update
                    /\ needs_refresh' = needs_refresh
      ]_vars

\* a refresh that the flag alone caused: 3000 ms cannot have passed
C5_Witness ==
    /\ pc = "render"
    /\ ev.fired
    /\ ev.was_count > 0
    /\ clock.sec < 3
    /\ last_update = clock
    /\ ~needs_refresh

\* C6: at most one snapshot buffer is allocated at any time, the pointer of
\* main is NULL or a live buffer while the loop runs, nothing reads or frees a
\* freed buffer, and none is left allocated when main exits (lines 510-515).
C6_SnapshotStorage ==
    /\ Cardinality(DOMAIN heap) <= 1
    /\ fault = {}
    /\ (pc # "done" /\ last_processes # NULL) => last_processes \in DOMAIN heap
    /\ last_processes = NULL => heap = EmptyHeap
    /\ pc = "done" => heap = EmptyHeap

C6_Witness ==
    /\ pc = "done"
    /\ heap = EmptyHeap
    /\ last_processes # NULL
    /\ screen = "list"

\* C7: when collect_processes returns NULL the loop draws the error message
\* instead of the list, goes on (it ends only on should_quit), collects again
\* at the next call of should_refresh that fires, and a collection that then
\* succeeds installs a snapshot whose count is its size and which the
\* selection invariant holds for.
C7_ScanFatalRecovery ==
    [][ /\ (pc = "render" /\ pc' # pc)
              => /\ pc' = "input"
                 /\ screen' = IF last_processes = NULL THEN "error" ELSE "list"
        /\ pc' = "done" => should_quit
        /\ (pc = "input" /\ last_processes = NULL /\ pc' # pc) => pc' = "top"
        /\ (pc = "top" /\ ~should_quit /\ last_processes = NULL /\ pc' # pc)
              => /\ pc' = "render"
                 /\ ev'.collected = ShouldRefreshFires(clock, last_update, needs_refresh)
        /\ (last_processes = NULL /\ last_processes' # NULL)
              => /\ ev'.collected
                 /\ last_processes' \in DOMAIN heap'
                 /\ last_process_count' = Len(heap'[last_processes'])
                 /\ SelectionInvariant'
      ]_vars

\* the error message is still on screen and a new snapshot is installed
C7_Witness ==
    /\ pc = "render"
    /\ screen = "error"
    /\ ev.collected
    /\ last_processes # NULL
    /\ last_process_count > 0

\* C8: whenever the main loop waits for input with no dialog open - also
\* while the collection-failed message is displayed - a queued 'q' or 'Q'
\* sets should_quit, and the loop then exits at its next top-of-loop check
\* without collecting a snapshot or sending a signal.
C8_QuitFromAnywhere ==
    [][ /\ (pc = "input" /\ pending \in {<<CH_q>>, <<CH_Q>>} /\ pc' # pc)
              => should_quit'
        /\ (pc = "top" /\ should_quit /\ pc' # pc)
              => pc' = "done" /\ ~ev'.collected /\ ev'.killed = 0
      ]_vars

\* the loop runs and should_refresh, called now, would return true
RefreshDue ==
    /\ pc \in {"top", "render", "input", "dlg_choice", "dlg_submit", "dlg_result"}
    /\ ~should_quit
    /\ ShouldRefreshFires(clock, last_update, needs_refresh)

\* C9 as claimed: every read returns within a fixed timeout, so that from any
\* state where a refresh is due, the user pressing nothing, the refresh is
\* eventually performed.
C9_DueRefreshPerformed ==
    RefreshDue ~> (ev.fired \/ pending # <<>>)

\* C9 as amended: the getch of the main loop returns within its 100 ms
\* timeout, the two reads of the dialog block until a key is pressed; from
\* any state where a refresh is due and no dialog is open, the user pressing
\* nothing, the refresh is eventually performed.
C9_DueRefreshPerformedOutsideDialog ==
    (RefreshDue /\ DialogState = "Idle") ~> (ev.fired \/ pending # <<>>)

\* a refresh became due by time alone while the loop waits in getch
C9_Witness ==
    /\ RefreshDue
    /\ pc = "input"
    /\ last_processes # NULL
    /\ pending = <<>>
    /\ ~needs_refresh

\* the quotient of a by b > 0 with the fraction discarded: the integer of
\* greatest magnitude, of the sign of a, whose product with b does not pass a
\* (a a difference of nanoseconds within one second)
ClaimQuotient(a, b) ==
    LET mag == IF a < 0 THEN -a ELSE a
        q == CHOOSE k \in 0 .. NSEC_PER_SEC \div NSEC_PER_MS :
                 k * b <= mag /\ mag < (k + 1) * b
    IN  IF a < 0 THEN -q ELSE q

\* the elapsed milliseconds of the claim: the seconds difference in
\* milliseconds plus the nanoseconds difference in whole milliseconds
ClaimElapsedMs(now, last) ==
    (now.sec - last.sec) * 1000
        + ClaimQuotient(now.nsec - last.nsec, NSEC_PER_MS)

\* C4: for every pair of timestamps with now >= last_update, should_refresh
\* returns true if and only if the elapsed milliseconds, computed from the
\* seconds and nanoseconds differences with C integer division, are at least
\* the 3000 ms interval or needs_refresh is set.
C4_FiresIffElapsedMs ==
    [][ (pc = "sr_call" /\ pc' = "sr_ret")
            => /\ TsLeq(last_update, clock')
               /\ ev'.fired <=> (ClaimElapsedMs(clock', last_update)
                                     >= REFRESH_INTERVAL_MS
                                 \/ needs_refresh)
      ]_vars

\* a call returned true by time alone, exactly three seconds on the clock with
\* no nanoseconds: the call before it started within the first second
C4_Witness ==
    /\ pc = "sr_ret"
    /\ ev.fired
    /\ ~needs_refresh
    /\ clock = Timespec(REFRESH_INTERVAL_MS \div 1000, 0)
    /\ last_update = clock

\* the least k >= 0 with c * 2^k >= n: ceil(log2(n / c)) for n > c, 0 for n <= c
RECURSIVE CeilLog2Ratio(_, _)
CeilLog2Ratio(n, c) == IF c >= n THEN 0 ELSE 1 + CeilLog2Ratio(n, 2 * c)

\* C10 as claimed: a snapshot of N records was collected with at most
\* ceil(log2(N / C)) reallocations, none when N <= C.
C10_ReallocsLogOfRecords ==
    pc = "cp_returned"
        => cp.reallocs <= CeilLog2Ratio(cp.size, INITIAL_CAPACITY_SIZE)

\* C10 as amended: a snapshot of N records was collected with at most
\* ceil(log2((N + 1) / C)) reallocations, the buffer growing for the candidate
\* about to be read, which may then vanish.
C10_ReallocsLogOfRecordsPlusOne ==
    pc = "cp_returned"
        => cp.reallocs <= CeilLog2Ratio(cp.size + 1, INITIAL_CAPACITY_SIZE)

\* two doublings, the second for a candidate that vanished
C10_Witness ==
    /\ pc = "cp_returned"
    /\ cp.size = 2 * INITIAL_CAPACITY_SIZE
    /\ cp.reallocs = 2
    /\ cp.capacity = 4 * INITIAL_CAPACITY_SIZE

\* name is a non-empty string of decimal digits
ClaimNumeral(name) ==
    /\ Len(name) > 0
    /\ \A i \in DOMAIN name : name[i] \in CH_0 .. CH_9

\* the integer a string of decimal digits denotes
RECURSIVE NumeralValue(_)
NumeralValue(name) ==
    IF name = <<>> THEN 0
    ELSE 10 * NumeralValue(SubSeq(name, 1, Len(name) - 1)) + (name[Len(name)] - CH_0)

\* the entries the claims say a snapshot includes
ClaimIncluded(name) == ClaimNumeral(name) /\ NumeralValue(name) > 0

ClaimReadableCandidate(entry) == ClaimIncluded(entry.name) /\ entry.readable

\* the pids the names of a sequence of numeral entries denote
PidsOf(entries) == [i \in DOMAIN entries |-> NumeralValue(entries[i].name)]

\* the snapshot collect_processes returned
Snapshot == heap[last_processes]

\* C11: when collect_processes returns on a listing whose status sources are
\* all readable, an entry is in the snapshot if and only if its name is a
\* non-empty string of decimal digits denoting an integer > 0: each such entry
\* has a record with its pid, every record is the pid of such an entry, and
\* there are as many records as such entries ("abc", "self", "" and "0" give none).
C11_InclusionFilter ==
    (pc = "sc_returned" /\ \A i \in DOMAIN scan.listing : scan.listing[i].readable)
        => /\ \A i \in DOMAIN scan.listing :
                 ClaimNumeral(scan.listing[i].name)
                     => (ClaimIncluded(scan.listing[i].name)
                            <=> \E j \in DOMAIN Snapshot :
                                   Snapshot[j] = NumeralValue(scan.listing[i].name))
           /\ \A j \in DOMAIN Snapshot :
                 \E i \in DOMAIN scan.listing :
                    /\ ClaimIncluded(scan.listing[i].name)
                    /\ Snapshot[j] = NumeralValue(scan.listing[i].name)
           /\ Len(Snapshot)
                 = Cardinality({i \in DOMAIN scan.listing :
                                   ClaimIncluded(scan.listing[i].name)})
           /\ last_process_count = Len(Snapshot)

\* "abc", "0", "17", "", "self", all readable: one record
C11_Witness ==
    /\ pc = "sc_returned"
    /\ scan.listing = <<[name |-> NameAbc, readable |-> TRUE],
                        [name |-> NameZero, readable |-> TRUE],
                        [name |-> Decimal(17), readable |-> TRUE],
                        [name |-> NameEmpty, readable |-> TRUE],
                        [name |-> NameSelf, readable |-> TRUE]>>
    /\ Snapshot = <<17>>

\* C12: a candidate whose status source cannot be opened is skipped and the
\* scan goes on; the snapshot returned is the subsequence of the valid,
\* readable candidates in the order of the listing (1, 2, abc, self, 7 give
\* 1, 2, 7), its count the number of them; collect_processes fails only at
\* opendir, at malloc, or at a realloc that a full buffer made necessary.
C12_SkipOnVanishInOrder ==
    [][ /\ (pc = "sc_loop" /\ pc' = "sc_returned")
              => /\ last_processes' \in DOMAIN heap'
                 /\ heap'[last_processes']
                       = PidsOf(SelectSeq(scan.listing, ClaimReadableCandidate))
                 /\ last_process_count' = Len(heap'[last_processes'])
        /\ (pc = "sc_loop" /\ scan'.listing # scan.listing
                /\ ~scan'.listing[Len(scan'.listing)].readable)
              => \/ pc' = "sc_loop" /\ scan'.procs = scan.procs
                 \/ pc' = "sc_failed" /\ scan'.cause = "realloc"
        /\ (pc = "sc_call" /\ pc' = "sc_failed")
              => scan'.cause \in {"opendir", "malloc"}
        /\ (pc = "sc_loop" /\ pc' = "sc_failed")
              => /\ scan'.cause = "realloc"
                 /\ scan.size >= scan.capacity
                 /\ ClaimIncluded(scan'.listing[Len(scan'.listing)].name)
      ]_vars

\* 1, 7 (vanished), abc, self, 2 give 1, 2
C12_Witness ==
    /\ pc = "sc_returned"
    /\ scan.listing = <<[name |-> Decimal(1), readable |-> TRUE],
                        [name |-> Decimal(7), readable |-> FALSE],
                        [name |-> NameAbc, readable |-> TRUE],
                        [name |-> NameSelf, readable |-> TRUE],
                        [name |-> Decimal(2), readable |-> TRUE]>>
    /\ Snapshot = <<1, 2>>
    /\ last_process_count = 2

\* C13 as claimed: when the entry names of the listing are pairwise distinct
\* strings, no two records of the snapshot have the same pid.
C13_NoDuplicatePids ==
    (/\ pc = "sc_returned"
     /\ \A i, j \in DOMAIN scan.listing :
           i # j => scan.listing[i].name # scan.listing[j].name)
        => \A i, j \in DOMAIN Snapshot : i # j => Snapshot[i] # Snapshot[j]

\* C13 as amended: when the numeral entry names of the listing denote pairwise
\* distinct integers, no two records of the snapshot have the same pid.
C13_NoDuplicatePidsDistinctValues ==
    (/\ pc = "sc_returned"
     /\ \A i, j \in DOMAIN scan.listing :
           (/\ i # j
            /\ ClaimNumeral(scan.listing[i].name)
            /\ ClaimNumeral(scan.listing[j].name))
              => NumeralValue(scan.listing[i].name) # NumeralValue(scan.listing[j].name))
        => \A i, j \in DOMAIN Snapshot : i # j => Snapshot[i] # Snapshot[j]

\* 7 and 17 among the entries, both recorded
C13_Witness ==
    /\ pc = "sc_returned"
    /\ Len(scan.listing) = MaxListing
    /\ \E i, j \in DOMAIN Snapshot : Snapshot[i] = 7 /\ Snapshot[j] = 17
    /\ \A i, j \in DOMAIN scan.listing :
           (/\ i # j
            /\ ClaimNumeral(scan.listing[i].name)
            /\ ClaimNumeral(scan.listing[j].name))
              => NumeralValue(scan.listing[i].name) # NumeralValue(scan.listing[j].name)

Min(a, b) == IF a <= b THEN a ELSE b

\* visible_rows as the claims define it, from the height of the terminal
ClaimVisibleRows == Max(0, view.max_y - 7)

\* the indices drawn: the set of the rows
RowsDrawn == {view.rows[k] : k \in DOMAIN view.rows}

\* C14 as claimed: once render_process_list has computed start_idx, it is 0
\* when selected_index < visible_rows and otherwise start_idx + visible_rows
\* - 1 = selected_index, for every count; and with visible_rows >= 1 and
\* count >= 1 the selected row is among the rows drawn.
C14_ViewportStart ==
    /\ pc \in {"rv_loop", "rv_done"}
          => IF selected_index < ClaimVisibleRows
             THEN view.start_idx = 0
             ELSE view.start_idx + ClaimVisibleRows - 1 = selected_index
    /\ (pc = "rv_done" /\ ClaimVisibleRows >= 1 /\ last_process_count >= 1)
          => /\ selected_index \in RowsDrawn
             /\ view.highlighted = selected_index

\* C14 as amended: the same for every count >= 1; with count = 0 start_idx
\* is 0.
C14_ViewportStartNonEmpty ==
    /\ pc \in {"rv_loop", "rv_done"}
          => IF selected_index < ClaimVisibleRows \/ last_process_count = 0
             THEN view.start_idx = 0
             ELSE view.start_idx + ClaimVisibleRows - 1 = selected_index
    /\ (pc = "rv_done" /\ ClaimVisibleRows >= 1 /\ last_process_count >= 1)
          => /\ selected_index \in RowsDrawn
             /\ view.highlighted = selected_index

\* the list has scrolled: the selected row is the last one drawn
C14_Witness ==
    /\ pc = "rv_done"
    /\ ClaimVisibleRows >= 2
    /\ selected_index >= ClaimVisibleRows
    /\ view.start_idx > 0
    /\ view.rows[Len(view.rows)] = selected_index
    /\ view.highlighted = selected_index

\* C15: render_process_list draws max(0, min(visible_rows, count - start_idx))
\* rows, visible_rows = max(0, height - 7), the rows start_idx, start_idx + 1,
\* ... in turn; every index drawn is in [0, count); no row is drawn when
\* visible_rows = 0 or count = 0; count 50, visible_rows 10 and selection 45
\* give start_idx 36 and 10 rows.
C15_ViewportSizeAndBounds ==
    /\ \A r \in RowsDrawn : 0 <= r /\ r < last_process_count
    /\ \A k \in DOMAIN view.rows : view.rows[k] = view.start_idx + k - 1
    /\ "out_of_bounds" \notin fault
    /\ pc = "rv_done"
          => /\ Len(view.rows)
                   = Max(0, Min(ClaimVisibleRows, last_process_count - view.start_idx))
             /\ (ClaimVisibleRows = 0 \/ last_process_count = 0) => view.rows = <<>>
             /\ (last_process_count = 50 /\ ClaimVisibleRows = 10 /\ selected_index = 45)
                   => view.start_idx = 36 /\ Len(view.rows) = 10

C15_Witness ==
    /\ pc = "rv_done"
    /\ last_process_count = 50
    /\ ClaimVisibleRows = 10
    /\ selected_index = 45
    /\ view.start_idx = 36
    /\ Len(view.rows) = 10

\* what the getch of handle_user_input returns in this state
KeyAtInput == IF pending = <<>> THEN ERR ELSE Head(pending)

AppStateUnchanged ==
    /\ selected_index' = selected_index
    /\ should_quit' = should_quit
    /\ needs_refresh' = needs_refresh
    /\ last_update' = last_update

\* C16: a call of handle_user_input that reads an up-arrow with selected_index
\* = 0, a down-arrow with selected_index = count - 1, or either arrow with
\* count = 0 leaves selected_index, should_quit, needs_refresh and last_update
\* as they were; one that reads ERR (the timeout) or a key other than q, Q, k,
\* K, r, R and the arrows leaves these, the snapshot and the dialog as they
\* were.
C16_BoundaryNavigationNoOp ==
    [][ (pc = "input" /\ pc' # pc)
            => /\ (KeyAtInput = KEY_UP /\ selected_index = 0) => AppStateUnchanged
               /\ (KeyAtInput = KEY_DOWN /\ selected_index = last_process_count - 1)
                     => AppStateUnchanged
               /\ (KeyAtInput \in {KEY_UP, KEY_DOWN} /\ last_process_count = 0)
                     => AppStateUnchanged
               /\ KeyAtInput \notin {CH_q, CH_Q, CH_k, CH_K, CH_r, CH_R, KEY_UP, KEY_DOWN}
                     => /\ AppStateUnchanged
                        /\ pc' = "top"
                        /\ UNCHANGED <<last_processes, last_process_count, heap,
                                       dlg, screen, shown>>
      ]_vars

\* handle_user_input has returned with the last row selected and nothing
\* requested: it read a down-arrow, another key without effect, or timed out
C16_Witness ==
    /\ pc = "top"
    /\ screen = "list"
    /\ last_processes # NULL
    /\ last_process_count >= 2
    /\ selected_index = last_process_count - 1
    /\ ~needs_refresh
    /\ ~should_quit
    /\ pending = <<>>

\* C17: no step taken while the dialog is open, nor the one that opens it,
\* changes selected_index, should_quit or last_update, and no step inside the
\* dialog changes needs_refresh; the step that closes it - the first key not
\* being '1', or the key after the result, whether kill succeeded or failed -
\* leaves needs_refresh true, the selection the one the dialog was opened for,
\* and the loop running.
C17_DialogLeavesMainState ==
    [][ /\ (DialogState # "Idle" \/ DialogState' # "Idle")
              => /\ selected_index' = selected_index
                 /\ should_quit' = should_quit
                 /\ last_update' = last_update
        /\ (DialogState # "Idle" /\ DialogState' # "Idle")
              => needs_refresh' = needs_refresh
        /\ (DialogState # "Idle" /\ DialogState' = "Idle")
              => /\ needs_refresh'
                 /\ selected_index' = dlg.proc
                 /\ ~should_quit'
                 /\ pc' = "top"
      ]_vars

\* the dialog has just closed on a 'q' with a row other than the first selected
C17_Witness ==
    /\ pc = "top"
    /\ dlg = DlgIdle
    /\ ev.dkey = <<CH_q>>
    /\ needs_refresh
    /\ ~should_quit
    /\ selected_index > 0

\* C20: the pid SIGTERM is sent to is the pid of the record that the latest
\* render_process_list call was given as the selected one, which is record
\* selected_index of the snapshot main holds; a 'k' or 'K' read (or left
\* unread) with count = 0 or with no snapshot installed opens no dialog and
\* sends nothing.
C20_KillTargetsDisplayed ==
    [][ /\ ev'.killed # 0
              => /\ screen = "list"
                 /\ shown # 0
                 /\ ev'.killed = shown
                 /\ RecordPid(heap, last_processes, selected_index) = {ev'.killed}
        /\ (/\ pc = "input"
            /\ pc' # pc
            /\ KeyAtInput \in {CH_k, CH_K}
            /\ (last_process_count = 0 \/ last_processes = NULL))
              => /\ DialogState' = "Idle"
                 /\ dlg' = DlgIdle
                 /\ ev'.killed = 0
      ]_vars

\* SIGTERM has been sent to the process of a row other than the first, after
\* an earlier refresh changed the snapshot
C20_Witness ==
    /\ pc = "dlg_result"
    /\ ev.killed # 0
    /\ ev.killed = shown
    /\ selected_index > 0
    /\ clock.sec >= 3
    /\ heap[last_processes][1] # 1

\* the keys the claim calls recognized, each with the field it sets
ClaimMemKeys ==
    {<<"MemTotal:", "mem_total_kb">>, <<"MemFree:", "mem_free_kb">>,
     <<"MemAvailable:", "mem_available_kb">>, <<"Cached:", "mem_cached_kb">>,
     <<"SwapTotal:", "swap_total_kb">>, <<"SwapFree:", "swap_free_kb">>,
     <<"Buffers:", "buffers_kb">>}

\* no line of the source read starts with key
MemKeyAbsent(lines, key) == \A i \in DOMAIN lines : lines[i].key # key

\* C18: after a refresh has read the memory source, every field whose key no
\* line of the source has is 0 (so is every field when the source could not
\* be opened), whatever the sample held before; a line with another key
\* changes no field; and the figures displayed for used memory and used swap
\* are total - free - cached and swap_total - swap_free, or 0 where these are
\* negative.
C18_MemoryDefaults ==
    [][ /\ (pc' = "mi_read" /\ pc # pc')
              => /\ \A kf \in ClaimMemKeys :
                       MemKeyAbsent(mem'.lines, kf[1]) => mem'.sample[kf[2]] = 0
                 /\ ~mem'.opened => \A kf \in ClaimMemKeys : mem'.sample[kf[2]] = 0
        /\ (pc = "mi_loop" /\ mem'.lines # mem.lines
                /\ \A kf \in ClaimMemKeys : mem'.lines[Len(mem'.lines)].key # kf[1])
              => mem'.sample = mem.sample
        /\ (pc' = "mi_shown" /\ pc # pc')
              => /\ mem'.display.used
                       = Max(0, mem.sample.mem_total_kb - mem.sample.mem_free_kb
                                    - mem.sample.mem_cached_kb)
                 /\ mem'.display.swap_used
                       = Max(0, mem.sample.swap_total_kb - mem.sample.swap_free_kb)
                 /\ mem'.display.used >= 0
                 /\ mem'.display.swap_used >= 0
      ]_vars

\* a source with SwapTotal and no SwapFree, free memory above the total, read
\* over a sample that an earlier refresh had filled
C18_Witness ==
    /\ pc = "mi_shown"
    /\ mem.opened
    /\ mem.lines = <<[key |-> "SwapTotal:", val |-> <<3>>],
                     [key |-> "MemTotal:", val |-> <<1>>],
                     [key |-> "MemFree:", val |-> <<3>>]>>
    /\ mem.sample.swap_free_kb = 0
    /\ mem.sample.buffers_kb = 0
    /\ mem.display.swap_used = 3
    /\ mem.display.used = 0

\* what each line of a status source means: the name a Name line gives
ClaimNameMeaning ==
    {[text |-> <<CH_TAB, 115, 104, CH_NL>>, val |-> <<115, 104>>],
     [text |-> <<97, 98, CH_NL>>,           val |-> <<97, 98>>],
     [text |-> <<CH_NL>>,                   val |-> <<>>]}

\* <<c>>, c the state a State line gives, or <<>> if it gives none
ClaimStateMeaning ==
    {[text |-> <<CH_TAB, 83, CH_NL>>,                val |-> <<83>>],
     [text |-> <<CH_TAB, 82, CH_SPACE, 120, CH_NL>>, val |-> <<82>>],
     [text |-> <<CH_TAB, CH_NL>>,                    val |-> <<>>]}

\* <<n>>, n the resident size a VmRSS line gives, or <<>> if it gives none
ClaimRssMeaning ==
    {[text |-> <<CH_TAB, CH_0 + 4, CH_SPACE, 107, 66, CH_NL>>,             val |-> <<4>>],
     [text |-> <<CH_SPACE, CH_0 + 1, CH_0 + 2, CH_SPACE, 107, 66, CH_NL>>, val |-> <<12>>],
     [text |-> <<CH_TAB, 107, 66, CH_NL>>,                                 val |-> <<>>]}

ClaimMeaningOf(meaning, text) == (CHOOSE m \in meaning : m.text = text).val

\* the lines of the source read with the given key, in order
LinesWithKey(key) == SelectSeq(proc.lines, LAMBDA line : line.key = key)

\* the first State (or VmRSS) line read that gives a value, its value: <<v>>;
\* <<>> if there is none
RECURSIVE ClaimFirstValue(_, _, _)
ClaimFirstValue(meaning, lines, i) ==
    IF i > Len(lines) THEN <<>>
    ELSE IF ClaimMeaningOf(meaning, lines[i].text) # <<>>
         THEN ClaimMeaningOf(meaning, lines[i].text)
         ELSE ClaimFirstValue(meaning, lines, i + 1)

\* C19: a call of read_process_info whose status source opens returns true
\* and collect_processes counts the record, whatever the source holds and
\* whatever the slot held before; the record's name is that of the first Name
\* line read, "?" if there is none; its state that of the first State line
\* that gives one, '?' if there is none; its size that of the first VmRSS line
\* that gives one, 0 if there is none.
C19_RecordDefaults ==
    (pc = "pi_returned" /\ proc.opened)
        => /\ proc.ret
           /\ scan.size = 1
           /\ scan.procs = <<1>>
           /\ proc.record.name
                 = IF LinesWithKey("Name:") = <<>> THEN <<CH_QUESTION>>
                   ELSE ClaimMeaningOf(ClaimNameMeaning, LinesWithKey("Name:")[1].text)
           /\ proc.record.state
                 = IF ClaimFirstValue(ClaimStateMeaning, LinesWithKey("State:"), 1) = <<>>
                   THEN CH_QUESTION
                   ELSE ClaimFirstValue(ClaimStateMeaning, LinesWithKey("State:"), 1)[1]
           /\ proc.record.vm_rss_kb
                 = IF ClaimFirstValue(ClaimRssMeaning, LinesWithKey("VmRSS:"), 1) = <<>>
                   THEN 0
                   ELSE ClaimFirstValue(ClaimRssMeaning, LinesWithKey("VmRSS:"), 1)[1]

\* a State line without a state, then Name "sh", State R, Name "ab", no
\* VmRSS, read into a slot that held other values: sh, R, 0
C19_Witness ==
    /\ pc = "pi_returned"
    /\ proc.ret
    /\ proc.lines = <<[key |-> "State:", text |-> <<CH_TAB, CH_NL>>],
                      [key |-> "Name:",  text |-> <<CH_TAB, 115, 104, CH_NL>>],
                      [key |-> "State:", text |-> <<CH_TAB, 82, CH_SPACE, 120, CH_NL>>],
                      [key |-> "Name:",  text |-> <<97, 98, CH_NL>>]>>
    /\ proc.record = [name |-> <<115, 104>>, state |-> 82, vm_rss_kb |-> 0]
    /\ scan.size = 1

(***************************************************************************)
(* Buffer safety of collect_processes                                       *)
(***************************************************************************)
\* 2 to the k
RECURSIVE Pow2(_)
Pow2(k) == IF k = 0 THEN 1 ELSE 2 * Pow2(k - 1)

\* the entry the latest iteration of the readdir loop was for
ScanLastEntry == scan.listing[Len(scan.listing)]

\* the pids of the entries of the listing whose status source was read
ClaimReadPids ==
    {NumeralValue(scan.listing[i].name) :
        i \in {j \in DOMAIN scan.listing : ClaimReadableCandidate(scan.listing[j])}}

\* C23: in collect_processes every write to processes[size] (line 221 and the
\* read_process_info call of line 222, for each candidate, readable or
\* vanished) is at an index size < capacity, capacity being the one in force
\* after the growth check; capacity is always INITIAL_CAPACITY_SIZE * 2^k with
\* k the number of reallocations so far; and on return *count <= capacity, the
\* buffer holds records 0 .. *count-1, and each of them was filled by a
\* read_process_info call that succeeded (its pid is that of a readable
\* candidate of the listing).
C23_BufferSafety ==
    /\ [](pc \in {"sc_loop", "sc_returned"}
             => scan.capacity = INITIAL_CAPACITY_SIZE * Pow2(scan.reallocs))
    /\ [](pc = "sc_returned"
             => /\ last_process_count <= scan.capacity
                /\ last_process_count <= Len(Snapshot)
                /\ {Snapshot[i] : i \in 1 .. last_process_count} \subseteq ClaimReadPids)
    /\ [][ (pc = "sc_loop" /\ pc' = "sc_loop" /\ scan'.listing # scan.listing
               /\ ClaimIncluded(scan'.listing[Len(scan'.listing)].name))
             => /\ scan.size < scan'.capacity
                /\ scan'.size <= scan'.capacity
         ]_vars

\* 256 records, then a candidate that vanished after the second doubling made
\* room for it, then one more record: 257 records in a buffer of 512
C23_Witness ==
    /\ pc = "sc_returned"
    /\ scan.lead = 2 * INITIAL_CAPACITY_SIZE
    /\ scan.reallocs = 2
    /\ Len(scan.listing) = scan.lead + 2
    /\ ~scan.listing[scan.lead + 1].readable
    /\ ScanLastEntry = [name |-> Decimal(17), readable |-> TRUE]
    /\ last_process_count = scan.lead + 1
    /\ Snapshot[last_process_count] = 17

(***************************************************************************)
(* Navigation and the refresh interval                                      *)
(***************************************************************************)
\* the selection the claims say a refresh leaves, given the count it found
ClaimClamped(sel, count) == IF count = 0 THEN 0 ELSE Min(sel, count - 1)

\* a step of the loop from its top (Tick and KeyPress leave pc alone)
LoopIteration == pc = "top" /\ pc' # pc

\* the iteration called collect_processes: what main holds is NULL or a live
\* buffer of last_process_count records
CollectedAnew ==
    /\ ev'.collected
    /\ last_processes' # NULL
          => /\ last_processes' \in DOMAIN heap'
             /\ Len(heap'[last_processes']) = last_process_count'

\* C22: a call of handle_user_input that reads an arrow key and changes
\* selected_index returns with needs_refresh set and the loop running; an
\* iteration that starts with needs_refresh set calls collect_processes,
\* clamps selected_index against the count after the call, sets last_update
\* to the time should_refresh read and clears needs_refresh, however little
\* time has passed since last_update; and every iteration in which
\* should_refresh fires, for the flag or for the interval, sets last_update to
\* the time it read, while one in which it does not fire leaves last_update.
C22_NavigationForcesRefresh ==
    [][ /\ (pc = "input" /\ pc' # pc /\ KeyAtInput \in {KEY_UP, KEY_DOWN}
               /\ selected_index' # selected_index)
              => /\ needs_refresh'
                 /\ ~should_quit'
                 /\ pc' = "top"
        /\ (LoopIteration /\ needs_refresh /\ ~should_quit)
              => /\ ev'.fired
                 /\ CollectedAnew
                 /\ selected_index' = ClaimClamped(selected_index, last_process_count')
                 /\ last_update' = clock
                 /\ ~needs_refresh'
        /\ (LoopIteration /\ ~should_quit)
              => last_update' = IF ev'.fired THEN clock ELSE last_update
      ]_vars

\* a refresh less than 3000 ms after the program started, and not the first
\* one: the selection had been moved down to a row >= 1, needs_refresh forced
\* the refresh, the new snapshot is shorter and the selection was clamped to
\* its last row
C22_Witness ==
    /\ pc = "render"
    /\ ev.fired
    /\ ev.collected
    /\ clock.sec * 1000 < REFRESH_INTERVAL_MS
    /\ last_update = clock
    /\ ev.was_count >= 3
    /\ ev.was_sel = 2
    /\ last_processes # NULL
    /\ last_process_count = 2
    /\ selected_index = 1
    /\ ~needs_refresh

(***************************************************************************)
(* The second variant: what is killed and what is displayed                 *)
(***************************************************************************)
\* C21: in the second variant, whenever SIGTERM is submitted its target is the
\* pid of the record that the most recent render_ui call was given as the
\* selected one and drew highlighted.
C21_KillTargetsDisplayedV2 ==
    [][ev'.killed # 0 => (shown # 0 /\ ev'.killed = shown)]_vars

====
